---- MODULE Spec2Model ----
(***************************************************************************)
(* The GTFS ingestion engine of gtfs_pipeline: the command-line run        *)
(* (cli.ingest.run_ingestion), the orchestrator (GTFSIngest) and the       *)
(* Artifact Store (DatabaseManager), as one state machine.  A statement    *)
(* of the Python code that can raise is one step; an exception is          *)
(* propagated to its handler inside the step that raises it.               *)
(***************************************************************************)
EXTENDS Integers, Sequences, FiniteSets, TLC

(* ------------------------------ bounds -------------------------------- *)
\* cycles of continuous_ingestion that are started
MaxCycles == 2
\* store calls a direct caller of the DatabaseManager makes
MaxCalls == 2
\* the wall clock reads 0..MaxTime (datetime.now() in whole seconds)
MaxTime == 1

(* --------------------------- configuration ---------------------------- *)
\* GTFSConfig.gtfs_static_url
gtfs_static_url == "s"

\* GTFSConfig.feeds: an ordered mapping feed_type -> list of urls, as the
\* sequence of its items.  The first is the default configuration.
FeedConfigs ==
  { << <<"trip_updates", <<"a">> >>, <<"vehicle_positions", <<"b">> >> >>,
    << <<"trip_updates", <<"a", "b">> >>, <<"vehicle_positions", <<"c">> >> >>,
    << <<"trip_updates", << >> >> >>,
    << <<"vehicle_positions", <<"a">> >> >>,
    << <<"trip_updates", <<"a">> >>, <<"vehicle_positions", <<"a">> >> >>,
    << <<"trip_updates", <<"s">> >> >>,
    << <<"trip_updates", <<"a", "a">> >> >>,
    << <<"alerts", <<"a">> >>, <<"trip_updates", <<"b">> >> >> }

\* the configurations a continuous run is followed with: one real-time
\* feed, and none
ContinuousFeedConfigs ==
  { << <<"vehicle_positions", <<"a">> >> >>,
    << <<"trip_updates", << >> >> >> }

\* the values of --feed-type
FeedTypeChoices ==
  {"trip_updates", "vehicle_positions", "realtime", "gtfs_static", "all"}

\* values of the environment variables GTFS_RT_SAVE_PROTO, GTFS_STATIC_SAVE_ZIP
EnvValues == {"unset", "1"}

VARIABLES
  feeds,               \* config.feeds
  once,                \* --once
  feed_type,           \* --feed-type
  env_proto,           \* os.environ GTFS_RT_SAVE_PROTO
  env_zip,             \* os.environ GTFS_STATIC_SAVE_ZIP
  save_raw_proto,      \* DatabaseManager.save_raw_proto
  save_raw_static_zip, \* DatabaseManager.save_raw_static_zip
  session,             \* GTFSIngest.session: "none", "open", "closed"
  pc,                  \* position of the run
  mode,                \* what the run dispatched to
  pending,             \* what leaves the async-with block of run_ingestion
  loopExit,            \* how continuous_ingestion left its loop
  exitPath,            \* the clause of run_ingestion the run ended through
  exitCode,            \* process exit code, -1 while running
  dbCloses,            \* calls of DatabaseManager.close
  cycles,              \* cycles of continuous_ingestion started
  interruptedAt,       \* pc at which the operator interrupt arrived, or "none"
  inCycle,             \* an ingest_all_feeds call has started and not returned
  idx,                 \* source in progress: 0 the static bundle, i the i-th feed
  results,             \* the dict results of ingest_all_feeds, in insertion order
  fetchLog,            \* sources whose GET was issued in this cycle, in order
  storeLog,            \* sources for which a store_* method was called, this cycle
  pauses,              \* asyncio.sleep(request_delay) calls completed in this cycle
  outcomes,            \* what the ingest calls of this cycle returned, in order
  raised,              \* exceptions raised in ingest_all_feeds past the ingest calls
  payload,             \* body of the response in hand
  timestamp,           \* timestamp captured by the ingest in progress
  files,               \* files under /app/data/raw
  lastFetch,           \* how the last GET of this cycle ended
  lastStore,           \* outcome of the last store_gtfs_*_data call of this cycle
  lastIngest,          \* outcome of the last ingest_feed / ingest_gtfs_static call
  reported,            \* the last successful/total count logged or echoed
  google_drive_manager, \* DatabaseManager.google_drive_manager is not None
  call,                \* arguments and result of the last store call of a direct caller
  prev,                \* arguments and result of the store call before it
  ncalls,              \* store calls made by a direct caller
  lastUpload,          \* how the upload block ended in the last store call
  waits,               \* asyncio.sleep(interval) calls of continuous_ingestion completed
  raw_data,            \* the bytes given to parse_gtfs_rt_data, as the message they hold
  zip_data,            \* the bytes given to zipfile.ZipFile, as the archive they hold
  requested,           \* the feed_type argument of parse_gtfs_rt_data
  parsed_data,         \* the dict parse_gtfs_rt_data returned
  gtfs_data,           \* the keys of the dict of tables fetch_gtfs_static_data built
  json_data            \* the object the store method dumped as JSON

inputs == <<feeds, once, feed_type, env_proto, env_zip>>
flags == <<save_raw_proto, save_raw_static_zip>>
ctl == <<pc, pending, loopExit>>
runv == <<session, mode, exitPath, exitCode, dbCloses>>
pos == <<idx, inCycle>>
hist == <<fetchLog, storeLog, pauses, outcomes>>
srcv == <<payload, timestamp>>
outv == <<lastFetch, lastStore, lastIngest>>
dbv == <<google_drive_manager, call, prev, ncalls, lastUpload>>
decv == <<raw_data, zip_data, requested, parsed_data, gtfs_data, json_data>>
vars == <<inputs, flags, ctl, runv, pos, hist, srcv, outv, dbv, decv,
          results, cycles, waits, raised, interruptedAt, files, reported>>

(* ------------------------------ helpers ------------------------------- *)
\* the (feed_type, feed_url) pairs in the order the nested loops of
\* ingest_all_feeds visit them
RECURSIVE FeedItems(_)
FeedItems(f) ==
  IF f = << >> THEN << >>
  ELSE [j \in 1..Len(f[1][2]) |-> [feed_type |-> f[1][1], feed_url |-> f[1][2][j]]]
       \o FeedItems(Tail(f))

Sources == FeedItems(feeds)
R == Len(Sources)

\* url of source i
SourceUrl(i) == IF i = 0 THEN gtfs_static_url ELSE Sources[i].feed_url

\* d[k] = v on a dict kept as a sequence of <<key, value>> in insertion order
DictSet(d, k, v) ==
  IF \E j \in 1..Len(d) : d[j][1] = k
  THEN [j \in 1..Len(d) |-> IF d[j][1] = k THEN <<k, v>> ELSE d[j]]
  ELSE Append(d, <<k, v>>)

DictKeys(d) == {d[j][1] : j \in 1..Len(d)}

\* sum(1 for success in results.values() if success)
Successful(d) == Cardinality({j \in 1..Len(d) : d[j][2]})

\* os.getenv(NAME, "0") == "1"
EnvFlag(v) == v = "1"


(* ----------------------------- the clock ------------------------------ *)
\* datetime.now().strftime('%Y%m%d_%H%M%S'): the local wall clock read to
\* the second.  It is not monotonic (it is set back at the end of daylight
\* saving time and by clock corrections), so a reading is any value.
Clock == 0..MaxTime

(* --------------------------- artifact files --------------------------- *)
\* database.py:109 as it would be if the name also counted the calls made
RtParsedName_numbered(ft, ts) ==
  [prefix |-> "gtfs_rt", feed_type |-> ft, ts |-> ts + (MaxTime + 1) * ncalls,
   ext |-> "json"]

\* database.py:51  f"gtfs_rt_{feed_type}_{timestamp}.pb"
RtRawName(ft, ts) ==
  [prefix |-> "gtfs_rt", feed_type |-> ft, ts |-> ts, ext |-> "pb"]
\* database.py:109  f"gtfs_rt_{feed_type}_{timestamp}.json"
RtParsedName(ft, ts) ==
  [prefix |-> "gtfs_rt", feed_type |-> ft, ts |-> ts, ext |-> "json"]
\* database.py:61  f"gtfs_static_{timestamp}.zip"
StaticRawName(ts) ==
  [prefix |-> "gtfs_static", feed_type |-> "", ts |-> ts, ext |-> "zip"]
\* database.py:195  f"gtfs_static_{timestamp}.json"
StaticParsedName(ts) ==
  [prefix |-> "gtfs_static", feed_type |-> "", ts |-> ts, ext |-> "json"]

\* database.py:108 and 194  "timestamp = timestamp or datetime.now()...":
\* the timestamp in the name of the parsed file is the caller's, and a new
\* reading of the clock when the caller passed none (-1).  The variant
\* always reads the clock.
artifact_timestamp_fresh(ts, now) == now

artifact_timestamp(ts, now) == IF ts # -1 THEN ts ELSE now

\* outcomes of "raw_dir.mkdir(...); with open(target, mode) as fh: ..."
IoOutcomes == {"ok", "OSError"}

\* the directory after that write of the file called name: a file of that
\* name is replaced, and an OSError of mkdir or open leaves the directory
\* as it was
WriteFile(fs, name, io) == IF io = "ok" THEN fs \cup {name} ELSE fs

(* ------------------------------ transport ----------------------------- *)
\* what one GET can end in: status 200 with a body, status 200 with an
\* empty body, another status, asyncio.TimeoutError, any other exception
TransportOutcomes == {"ok", "empty", "http_error", "timeout", "error"}

\* gtfs_ingest.py:72-89: the value fetch_gtfs_rt_data returns.  Without an
\* open session self.session.get raises, which line 87 turns into None.
fetch_gtfs_rt_data_unchecked(sess, t) ==
  IF sess # "open" THEN "None"
  ELSE CASE t = "ok" -> "bytes"
         [] t = "empty" -> "empty"
         [] t = "http_error" -> "bytes"
         [] OTHER -> "None"

\* The second variant opens a session of its own when none is open.
fetch_gtfs_rt_data_own_session(sess, t) ==
  CASE t = "ok" -> "bytes"
    [] t = "empty" -> "empty"
    [] OTHER -> "None"

fetch_gtfs_rt_data(sess, t) ==
  IF sess # "open" THEN "None"
  ELSE CASE t = "ok" -> "bytes"
         [] t = "empty" -> "empty"
         [] OTHER -> "None"

\* gtfs_ingest.py:105-107, 130-139: the response body fetch_gtfs_static_data
\* goes on to unpack, "None" when it returns None before unpacking
static_response(sess, t) ==
  IF sess # "open" THEN "None"
  ELSE CASE t = "ok" -> "bytes"
         [] t = "empty" -> "empty"
         [] OTHER -> "None"

\* config.py:44  "max_retries: int = 3"
max_retries == 3

\* gtfs_ingest.py:75 and 105: the GET requests one call of a fetch method
\* issues at most when config.max_retries is retries.  The method has one
\* "session.get" and no loop, and reads no retry setting.  The variant
\* repeats a failed request up to max_retries times.
requests_per_fetch_retrying(retries) == 1 + retries

requests_per_fetch(retries) == 1

\* how a GET ended, as lastFetch records it
FetchStatus(sess, t) ==
  IF sess = "open" /\ t = "ok" THEN "body"
  ELSE IF sess = "open" /\ t = "empty" THEN "empty" ELSE "failed"

(* ------------------------- protobuf messages -------------------------- *)
\* entities a decoded FeedMessage holds at most
MaxEntities == 2

\* a proto2 optional field: whether it is set (HasField) and its value;
\* reading a field that is not set gives the default of its type
Absent(default) == [has |-> FALSE, value |-> default]
Present(v) == [has |-> TRUE, value |-> v]

\* gtfs-realtime VehicleDescriptor, with its optional string id
NoDescriptor == [id |-> Absent("")]
VehicleDescriptors == {[id |-> Absent("")], [id |-> Present("v1")]}

\* gtfs-realtime TripUpdate: the optional int32 delay and the optional
\* VehicleDescriptor vehicle.  The fields of trip (trip_id, route_id, ...)
\* and timestamp are copied into the record as they are read and are left
\* out here.
NoTripUpdate == [delay |-> Absent(0), vehicle |-> Absent(NoDescriptor)]
TripUpdates ==
  {[delay |-> d, vehicle |-> v] :
     d \in {Absent(0), Present(0), Present(5)},
     v \in {Absent(NoDescriptor)} \cup {Present(x) : x \in VehicleDescriptors}}

\* gtfs-realtime VehiclePosition: the optional Position position
NoVehiclePosition == [position |-> Absent([latitude |-> 0])]
VehiclePositions ==
  {[position |-> p] :
     p \in {Absent([latitude |-> 0]), Present([latitude |-> 0]),
            Present([latitude |-> 36])}}

\* gtfs-realtime FeedEntity: trip_update and vehicle are both optional, so
\* an entity carries one, both, or neither (an alert)
FeedEntities ==
  {[trip_update |-> t, vehicle |-> v] :
     t \in {Absent(NoTripUpdate)} \cup {Present(x) : x \in TripUpdates},
     v \in {Absent(NoVehiclePosition)} \cup {Present(x) : x \in VehiclePositions}}

\* what the bytes of a response hold: a FeedMessage with its entities, or
\* something ParseFromString rejects
Malformed == [wire |-> "malformed", entity |-> << >>]
FeedData ==
  {[wire |-> "feed", entity |-> e] :
     e \in UNION {[1..n -> FeedEntities] : n \in 0..MaxEntities}}
  \cup {Malformed}

\* Python values of the fields of a decoded record
PyNone == <<"None">>
PyInt(n) == <<"int", n>>
PyStr(x) == <<"str", x>>
PyDict(d) == <<"dict", d>>

\* a Python dict with string keys: the keys it has, and a slot per key that
\* can occur.  {} is the dict without keys.
EmptyDict ==
  [keys |-> {}, feed_type |-> "", trip_updates |-> << >>,
   vehicle_positions |-> << >>]

\* gtfs_ingest.py:176 "if entity.HasField('trip_update')".  The variant
\* takes every entity.
has_trip_update_any(e) == TRUE

has_trip_update(e) == e.trip_update.has

\* gtfs_ingest.py:203 "if entity.HasField('vehicle')"
has_vehicle(e) == e.vehicle.has

\* gtfs_ingest.py:177-187: the record of one trip update
update_data(trip_update) ==
  [vehicle_id |-> IF trip_update.vehicle.has
                  THEN PyStr(trip_update.vehicle.value.id.value) ELSE PyNone,
   delay |-> IF trip_update.delay.has
             THEN PyInt(trip_update.delay.value) ELSE PyNone]

\* gtfs_ingest.py:204-221: the record of one vehicle position
position_data(vehicle) ==
  [position |-> IF vehicle.position.has
                THEN PyDict([latitude |-> vehicle.position.value.latitude])
                ELSE PyNone]

\* gtfs_ingest.py:173-188: the loop over feed.entity
RECURSIVE trip_updates_of(_)
trip_updates_of(entity) ==
  IF entity = << >> THEN << >>
  ELSE (IF has_trip_update(Head(entity))
        THEN <<update_data(Head(entity).trip_update.value)>> ELSE << >>)
       \o trip_updates_of(Tail(entity))

\* gtfs_ingest.py:200-222: the loop over feed.entity
RECURSIVE vehicle_positions_of(_)
vehicle_positions_of(entity) ==
  IF entity = << >> THEN << >>
  ELSE (IF has_vehicle(Head(entity))
        THEN <<position_data(Head(entity).vehicle.value)>> ELSE << >>)
       \o vehicle_positions_of(Tail(entity))

\* gtfs_ingest.py:171-195
parse_trip_updates(feed) ==
  [keys |-> {"feed_type", "timestamp", "gtfs_realtime_version", "trip_updates"},
   feed_type |-> "trip_updates",
   trip_updates |-> trip_updates_of(feed.entity),
   vehicle_positions |-> << >>]

\* gtfs_ingest.py:198-229
parse_vehicle_positions(feed) ==
  [keys |-> {"feed_type", "timestamp", "gtfs_realtime_version",
             "vehicle_positions"},
   feed_type |-> "vehicle_positions",
   trip_updates |-> << >>,
   vehicle_positions |-> vehicle_positions_of(feed.entity)]

\* gtfs_ingest.py:154-162: the parser parse_gtfs_rt_data hands the message
\* to for feed type ft.  The variant uses the trip-update parser for both
\* known feed types.
parser_for_always_trip_updates(ft) ==
  IF ft \in {"trip_updates", "vehicle_positions"} THEN "trip_updates" ELSE "none"

parser_for(ft) ==
  IF ft \in {"trip_updates", "vehicle_positions"} THEN ft ELSE "none"

\* gtfs_ingest.py:153-168 on the message the bytes hold: ParseFromString
\* raises on bytes that are no FeedMessage, which line 166 turns into {}
parse_gtfs_rt_message(d, ft) ==
  IF parser_for(ft) = "none" \/ d.wire # "feed" THEN EmptyDict
  ELSE IF parser_for(ft) = "trip_updates" THEN parse_trip_updates(d)
  ELSE parse_vehicle_positions(d)

\* json.dump (database.py:113): None is written as null, a number as a
\* number, a string as a string, a dict as an object
json_value(v) ==
  CASE v[1] = "None" -> <<"null">>
    [] v[1] = "int" -> <<"number", v[2]>>
    [] v[1] = "str" -> <<"string", v[2]>>
    [] OTHER -> <<"object", v[2]>>

\* database.py:112-113: the dict of a real-time feed as it is dumped
json_dump(d) ==
  [keys |-> d.keys, feed_type |-> d.feed_type,
   trip_updates |->
     [j \in 1..Len(d.trip_updates) |->
        [vehicle_id |-> json_value(d.trip_updates[j].vehicle_id),
         delay |-> json_value(d.trip_updates[j].delay)]],
   vehicle_positions |->
     [j \in 1..Len(d.vehicle_positions) |->
        [position |-> json_value(d.vehicle_positions[j].position)]]]

(* --------------------------- static archives -------------------------- *)
\* gtfs_ingest.py:114-117
gtfs_files ==
  <<"agency.txt", "stops.txt", "routes.txt", "trips.txt", "stop_times.txt",
    "calendar.txt", "calendar_dates.txt">>

\* gtfs_ingest.py:119 as it would be if every member of the archive were
\* read
files_to_read_all(z) == gtfs_files \o <<"shapes.txt">>

\* gtfs_ingest.py:119 "for file_name in gtfs_files"
files_to_read(z) == gtfs_files

\* the member names an archive is followed with: the seven, and one other
MemberNames == {gtfs_files[j] : j \in 1..Len(gtfs_files)} \cup {"shapes.txt"}

\* what the bytes of a static response hold: an archive, each name being
\* absent from it, a member that reads as CSV or a member that makes
\* pd.read_csv raise; or bytes zipfile.ZipFile rejects
NotAnArchive == [opens |-> FALSE, member |-> [n \in MemberNames |-> "absent"]]
ZipData ==
  {[opens |-> TRUE, member |-> m] :
     m \in [MemberNames -> {"absent", "csv", "bad_csv"}]}
  \cup {NotAnArchive}

\* zip_file.namelist()
namelist(z) == {n \in MemberNames : z.member[n] # "absent"}

\* gtfs_ingest.py:124  file_name.replace('.txt', '')
table_name(file_name) ==
  CASE file_name = "agency.txt" -> "agency"
    [] file_name = "stops.txt" -> "stops"
    [] file_name = "routes.txt" -> "routes"
    [] file_name = "trips.txt" -> "trips"
    [] file_name = "stop_times.txt" -> "stop_times"
    [] file_name = "calendar.txt" -> "calendar"
    [] file_name = "calendar_dates.txt" -> "calendar_dates"
    [] OTHER -> "shapes"

\* gtfs_ingest.py:121-127: what becomes of the decode when a table does not
\* read: the table is logged and left out.  The variant gives up the
\* archive.
on_table_error_abort == "abort"

on_table_error == "skip"

\* gtfs_ingest.py:119-127: the keys of gtfs_data after the loop over names
RECURSIVE read_tables(_, _)
read_tables(z, names) ==
  IF names = << >> THEN {}
  ELSE (IF Head(names) \in namelist(z) /\ z.member[Head(names)] = "csv"
        THEN {table_name(Head(names))} ELSE {})
       \cup read_tables(z, Tail(names))

\* a member the loop reads makes pd.read_csv raise
TableError(z) ==
  \E j \in 1..Len(files_to_read(z)) : z.member[files_to_read(z)[j]] = "bad_csv"

\* gtfs_ingest.py:110-129, 137-139: the value fetch_gtfs_static_data returns
\* for a body it received: None, or the tables with the bytes
unpack(z) ==
  IF ~z.opens \/ (on_table_error = "abort" /\ TableError(z))
  THEN [none |-> TRUE, gtfs_data |-> {}]
  ELSE [none |-> FALSE, gtfs_data |-> read_tables(z, files_to_read(z))]

\* database.py:198-205: the object store_gtfs_static_data dumps; tables
\* holds one array of rows per key of data
static_json(tables, feed_url, ts) ==
  [keys |-> {"feed_url", "timestamp", "tables"}, feed_url |-> feed_url,
   timestamp |-> ts, tables |-> tables]

\* no decoder is at work and nothing was dumped
NoDecode ==
  /\ raw_data = Malformed
  /\ zip_data = NotAnArchive
  /\ requested = ""
  /\ parsed_data = EmptyDict
  /\ gtfs_data = {}
  /\ json_data = [keys |-> {}]

(* ------------------------------ decoders ------------------------------ *)
\* gtfs_ingest.py:153-168: parse_gtfs_rt_data returns a dict tagged with the
\* feed type, or {} for an unknown feed type or bytes that do not parse.
\* The variant decodes a feed of any type.
parse_gtfs_rt_data_any_kind(data, ft) ==
  IF data = "feed" THEN [feed_type |-> ft] ELSE [feed_type |-> "(empty dict)"]

\* the message a body of the run stands for
MessageOf(body) ==
  IF body = "feed" THEN [wire |-> "feed", entity |-> << >>] ELSE Malformed

parse_gtfs_rt_data(data, ft) ==
  IF parse_gtfs_rt_message(MessageOf(data), ft).keys = {}
  THEN [feed_type |-> "(empty dict)"]
  ELSE [feed_type |-> parse_gtfs_rt_message(MessageOf(data), ft).feed_type]

\* gtfs_ingest.py:252 "if not parsed_data": the decode failed.  The variant
\* lets every result pass.
IsEmptyDict_never(parsed) == FALSE

IsEmptyDict(parsed) == parsed.feed_type = "(empty dict)"

\* the bodies a static GET can deliver: an archive whose tables all read, an
\* archive with a table that pd.read_csv rejects, bytes that are no archive
ZipBodies == {"zip", "zip_bad_table", "bad_zip"}

\* gtfs_ingest.py:110-129, 137-139: fetch_gtfs_static_data unpacks the
\* archive.  A table that cannot be read is logged and left out (121-127)
\* and the other tables are returned; bytes that are no archive raise in
\* zipfile.ZipFile, which line 137 turns into None.
\* the archive a body of the run stands for
ArchiveOf(body) ==
  CASE body = "zip" ->
         [opens |-> TRUE,
          member |-> [n \in MemberNames |->
                        IF n = "shapes.txt" THEN "absent" ELSE "csv"]]
    [] body = "zip_bad_table" ->
         [opens |-> TRUE,
          member |-> [n \in MemberNames |->
                        IF n = "stops.txt" THEN "bad_csv" ELSE "csv"]]
    [] OTHER -> NotAnArchive

\* The variant takes bytes that are no archive for an archive without
\* tables.
unzip_lenient(body) ==
  IF TableError(ArchiveOf(body)) THEN "tables_without_bad" ELSE "tables"

unzip(body) ==
  IF unpack(ArchiveOf(body)).none THEN "None"
  ELSE IF TableError(ArchiveOf(body)) THEN "tables_without_bad" ELSE "tables"

(* ------------------------- exception handlers ------------------------- *)
\* gtfs_ingest.py:270-272: what ingest_feed hands to its caller when its
\* body ended in out ("True", "False" or "raised")
ingest_feed_no_except(out) == out

ingest_feed_except(out) == IF out = "raised" THEN "False" ELSE out

\* gtfs_ingest.py:305-307, the same for ingest_gtfs_static
ingest_gtfs_static_except(out) == IF out = "raised" THEN "False" ELSE out

\* database.py:88-90 and 172-174: the raw write is made outside the try
\* block of store_gtfs_*_data, so its failure leaves the method as an error.
\* The variant has the method swallow the failure and report True.
store_raw_failure_swallowed == "True"

store_raw_failure == "raised"

\* database.py:118-120 and 214-216: a failure of the parsed write is caught
\* and reported as False.  The variant reports True all the same.
store_parsed_failure_ignored == "True"

store_parsed_failure == "False"

\* gtfs_ingest.py:356-362: what the loop of continuous_ingestion does with
\* an exception raised inside its try block.  "except KeyboardInterrupt"
\* breaks, "except Exception" retries; asyncio.CancelledError is neither a
\* KeyboardInterrupt nor an Exception and passes both clauses.
continuous_ingestion_no_retry(exc) ==
  IF exc = "KeyboardInterrupt" THEN "break" ELSE "propagate"

continuous_ingestion_interrupt_retries(exc) == "retry"

continuous_ingestion_except(exc) ==
  CASE exc = "KeyboardInterrupt" -> "break"
    [] exc = "Exception" -> "retry"
    [] OTHER -> "propagate"

\* cli.py:98-106: the clause run_ingestion ends through, and the exit code
\* of the command.  A CancelledError passes "except KeyboardInterrupt" and
\* "except Exception"; asyncio.run (line 106) then raises KeyboardInterrupt
\* out of the command function, and the process ends with a non-zero code
\* without the "Ingestion stopped by user" message.
run_ingestion_except(p) ==
  CASE p = "return" -> [path |-> "completed", code |-> 0]
    [] p = "KeyboardInterrupt" -> [path |-> "stopped_by_user", code |-> 0]
    [] p = "Exception" -> [path |-> "error", code |-> 1]
    [] OTHER -> [path |-> "uncaught", code |-> 1]


\* no store call: the value of call and prev outside a call
NoCall ==
  [method |-> "none", kind |-> "", url |-> "", raw |-> FALSE, ts |-> -1,
   stamp |-> -1, result |-> "none"]

(* ------------------------------- Init --------------------------------- *)
\* cli.py:45 (and gtfs_ingest.py:368): the program constructs its
\* DatabaseManager without a gtfs_config, so google_drive_manager is None
Init ==
  /\ google_drive_manager = FALSE
  /\ call = NoCall
  /\ prev = NoCall
  /\ ncalls = 0
  /\ lastUpload = "none"
  /\ once \in BOOLEAN
  /\ feeds \in (IF once THEN FeedConfigs ELSE ContinuousFeedConfigs)
  /\ feed_type \in FeedTypeChoices
  /\ env_proto \in EnvValues
  /\ env_zip \in EnvValues
  /\ save_raw_proto = FALSE
  /\ save_raw_static_zip = FALSE
  /\ session = "none"
  /\ pc = "start"
  /\ mode = "none"
  /\ pending = "none"
  /\ loopExit = "none"
  /\ exitPath = "none"
  /\ exitCode = -1
  /\ dbCloses = 0
  /\ cycles = 0
  /\ interruptedAt = "none"
  /\ inCycle = FALSE
  /\ idx = 0
  /\ results = << >>
  /\ fetchLog = << >>
  /\ storeLog = << >>
  /\ pauses = 0
  /\ outcomes = << >>
  /\ raised = 0
  /\ payload = "none"
  /\ timestamp = -1
  /\ files = {}
  /\ lastFetch = "none"
  /\ lastStore = "none"
  /\ lastIngest = "none"
  /\ reported = [form |-> "none", successful |-> 0, total |-> 0]
  /\ waits = 0
  /\ NoDecode

(* ---------------------- propagation of exceptions --------------------- *)
\* gtfs_ingest.py:359-362: where the handler of the loop takes the run after
\* exception exc: to its own sleep of interval seconds, after which the loop
\* goes on.  The variant goes on with the loop at once.
after_error_no_wait(exc) == "cycle_start"

after_error(exc) == "error_wait"

\* An exception exc raised at pc travels to the nearest handler: inside the
\* try block of continuous_ingestion (gtfs_ingest.py:345-354) that is the
\* loop's handler; from the handler's own sleep (line 362) and in a one-shot
\* run it leaves the async-with block of run_ingestion.
Raise(exc) ==
  IF mode = "continuous" /\ pc # "error_wait"
  THEN CASE continuous_ingestion_except(exc) = "break" ->
              /\ pc' = "aexit"
              /\ pending' = "return"
              /\ loopExit' = "stopped_by_user"
         [] continuous_ingestion_except(exc) = "retry" ->
              /\ pc' = after_error(exc)
              /\ UNCHANGED <<pending, loopExit>>
         [] OTHER ->
              /\ pc' = "aexit"
              /\ pending' = exc
              /\ loopExit' = "raised"
  ELSE /\ pc' = "aexit"
       /\ pending' = exc
       /\ loopExit' = IF mode = "continuous" THEN "raised" ELSE loopExit

(* ------------------------ cli.run_ingestion --------------------------- *)
\* cli.py:45-47 with database.py:33-34: the Artifact Store is constructed
\* and reads its two flags from the environment
Construct ==
  /\ pc = "start"
  /\ save_raw_proto' = EnvFlag(env_proto)
  /\ save_raw_static_zip' = EnvFlag(env_zip)
  /\ pc' = "aenter"
  /\ UNCHANGED <<inputs, dbv, decv, pending, loopExit, runv, pos, hist, srcv, outv,
                 results, cycles, waits, interruptedAt, files, reported, raised>>

\* gtfs_ingest.py:47-53
AEnter ==
  /\ pc = "aenter"
  /\ session' = "open"
  /\ pc' = "dispatch"
  /\ UNCHANGED <<inputs, dbv, decv, flags, pending, loopExit, mode, exitPath, exitCode,
                 dbCloses, pos, hist, srcv, outv, results, cycles, waits,
                 interruptedAt, files, reported, raised>>

\* gtfs_ingest.py:317-320: ingest_all_feeds starts with the static bundle.
\* The variant goes to the real-time feeds at once; a second one returns
\* at once when no real-time feed is configured.
first_source_realtime(n) == 1

first_source_unless_no_feed(n) == IF n = 0 THEN 1 ELSE 0

first_source(n) == 0

StepOf(i) ==
  IF i = 0 THEN "static_fetch" ELSE IF i <= R THEN "rt_fetch" ELSE "cycle_done"

\* no source is in progress
NoSource ==
  /\ payload' = "none"
  /\ timestamp' = -1
  /\ lastFetch' = "none"
  /\ lastStore' = "none"
  /\ lastIngest' = "none"

\* gtfs_ingest.py:317-320: a call of ingest_all_feeds begins
BeginAll ==
  /\ results' = << >>
  /\ idx' = IF first_source(R) <= R THEN first_source(R) ELSE 0
  /\ pc' = StepOf(first_source(R))
  /\ inCycle' = (first_source(R) <= R)
  /\ fetchLog' = << >>
  /\ storeLog' = << >>
  /\ pauses' = 0
  /\ outcomes' = << >>
  /\ NoSource

\* cli.py:53-54
DispatchOnceStatic ==
  /\ pc = "dispatch" /\ once /\ feed_type = "gtfs_static"
  /\ mode' = "static_once"
  /\ pc' = "static_fetch"
  /\ UNCHANGED <<inputs, dbv, decv, flags, pending, loopExit, session, exitPath, exitCode,
                 dbCloses, pos, hist, srcv, outv, results, cycles, waits,
                 interruptedAt, files, reported, raised>>

\* cli.py:66-67
DispatchOnceAll ==
  /\ pc = "dispatch" /\ once /\ feed_type = "all"
  /\ mode' = "all_once"
  /\ BeginAll
  /\ UNCHANGED <<inputs, dbv, decv, flags, pending, loopExit, session, exitPath, exitCode,
                 dbCloses, cycles, waits, interruptedAt, files, reported, raised>>

\* cli.py:57, 62, 84, 93: ingest_realtime_feeds and
\* continuous_realtime_ingestion are not attributes of GTFSIngest, so the
\* call raises AttributeError
DispatchMissingMethod ==
  /\ pc = "dispatch"
  /\ feed_type \in {"trip_updates", "vehicle_positions", "realtime"}
  /\ mode' = "missing_method"
  /\ pc' = "aexit"
  /\ pending' = "Exception"
  /\ UNCHANGED <<inputs, dbv, decv, flags, loopExit, session, exitPath, exitCode,
                 dbCloses, pos, hist, srcv, outv, results, cycles, waits,
                 interruptedAt, files, reported, raised>>

\* cli.py:72-78
DispatchUnsupported ==
  /\ pc = "dispatch" /\ ~once /\ feed_type = "gtfs_static"
  /\ mode' = "unsupported"
  /\ pc' = "aexit"
  /\ pending' = "return"
  /\ UNCHANGED <<inputs, dbv, decv, flags, loopExit, session, exitPath, exitCode,
                 dbCloses, pos, hist, srcv, outv, results, cycles, waits,
                 interruptedAt, files, reported, raised>>

\* cli.py:94-96 and gtfs_ingest.py:342-344
DispatchContinuous ==
  /\ pc = "dispatch" /\ ~once /\ feed_type = "all"
  /\ mode' = "continuous"
  /\ pc' = "cycle_start"
  /\ UNCHANGED <<inputs, dbv, decv, flags, pending, loopExit, session, exitPath, exitCode,
                 dbCloses, pos, hist, srcv, outv, results, cycles, waits,
                 interruptedAt, files, reported, raised>>

\* gtfs_ingest.py:56-59: __aexit__ closes the session it holds, whatever
\* leaves the block (p is "return" or the exception).  The variant closes
\* only when the block is left without an exception.
aexit_on_return_only(sess, p) ==
  IF sess = "open" /\ p = "return" THEN "closed" ELSE sess

aexit(sess, p) == IF sess = "open" THEN "closed" ELSE sess

\* gtfs_ingest.py:56-59: the async-with block is left and the session is
\* closed; the frames of the orchestrator's methods are gone, and with them
\* the record of the cycle that was in progress
AExit ==
  /\ pc = "aexit"
  /\ session' = aexit(session, pending)
  /\ pc' = "finally"
  /\ idx' = 0
  /\ results' = << >>
  /\ fetchLog' = << >>
  /\ storeLog' = << >>
  /\ pauses' = 0
  /\ outcomes' = << >>
  /\ NoSource
  /\ UNCHANGED <<inputs, dbv, decv, flags, pending, loopExit, mode, exitPath, exitCode,
                 dbCloses, inCycle, cycles, waits, interruptedAt, files, reported, raised>>

\* cli.py:103-104 "finally: await db_manager.close()": the calls of close
\* made when the try statement is left with p pending (a return, or the
\* exception on its way): one, whatever p is, also behind the sys.exit(1)
\* of line 102.  The variant has the call after the try statement, where
\* sys.exit(1) and an exception no clause catches pass it by.
db_manager_close_after_try(p) ==
  IF p \in {"return", "KeyboardInterrupt"} THEN 1 ELSE 0

db_manager_close(p) == 1

\* cli.py:98-104: the except clauses, then db_manager.close()
Finally ==
  /\ pc = "finally"
  /\ exitPath' = run_ingestion_except(pending).path
  /\ exitCode' = run_ingestion_except(pending).code
  /\ dbCloses' = dbCloses + db_manager_close(pending)
  /\ pc' = "done"
  /\ UNCHANGED <<inputs, dbv, decv, flags, pending, loopExit, session, mode, pos, hist,
                 srcv, outv, results, cycles, waits, interruptedAt, files, reported, raised>>

(* ------------------------- ingest_all_feeds --------------------------- *)
\* gtfs_ingest.py:320-330: asyncio.sleep(request_delay) is the last
\* statement of the body of the loop over the real-time feeds, so it runs
\* after every real-time source i of the n configured, and not after the
\* static bundle (source 0).  The variant has the sleep after every source,
\* the static bundle included.
sleeps_after_every_source(i, n) == i >= 0

sleeps_after(i, n) == i >= 1

\* gtfs_ingest.py:321-327: the source taken up after source i, whose
\* outcome was ok: the loops go on whatever the outcome was.  The variant
\* abandons the cycle at the first failure.
next_source_unless_failed(i, ok) == IF ok THEN i + 1 ELSE R + 1

next_source(i, ok) == i + 1

\* gtfs_ingest.py:321 and 327 "results[url] = success": the outcome of a
\* source is recorded when its ingest call has returned, before the loop
\* goes on.  The variant records successes only; a second one keeps the
\* outcome already recorded under a url.
record_successes_only(d, url, ok) == IF ok THEN DictSet(d, url, ok) ELSE d

record_first_outcome(d, url, ok) ==
  IF url \in DictKeys(d) THEN d ELSE DictSet(d, url, ok)

record(d, url, ok) == DictSet(d, url, ok)

\* the loop goes from source i to the next one, or ingest_all_feeds returns
Advance(i, ok) ==
  /\ pc' = StepOf(next_source(i, ok))
  /\ idx' = IF next_source(i, ok) <= R THEN next_source(i, ok) ELSE idx
  /\ inCycle' = (next_source(i, ok) <= R)

\* gtfs_ingest.py:284-307 then 321 (or cli.py:55): ingest_gtfs_static ends
\* in out; its caller records or echoes it
FinishStatic(out) ==
  /\ lastIngest' = out
  /\ outcomes' = IF out = "raised" THEN outcomes ELSE Append(outcomes, out = "True")
  /\ raised' = IF out = "raised" THEN raised + 1 ELSE raised
  /\ payload' = "none"
  /\ timestamp' = -1
  /\ IF out = "raised"
     THEN Raise("Exception") /\ UNCHANGED <<results, pos, reported>>
     ELSE IF mode = "static_once"
     THEN /\ pc' = "aexit"
          /\ pending' = "return"
          /\ reported' = [form |-> "word",
                          successful |-> IF out = "True" THEN 1 ELSE 0,
                          total |-> 1]
          /\ UNCHANGED <<loopExit, results, pos>>
     ELSE /\ results' = record(results, gtfs_static_url, out = "True")
          /\ IF sleeps_after(0, R)
             THEN pc' = "rt_pause" /\ UNCHANGED pos
             ELSE Advance(0, out = "True")
          /\ UNCHANGED <<pending, loopExit, reported>>

\* gtfs_ingest.py:245-272 then 327: ingest_feed ends in out; ingest_all_feeds
\* records it under the feed's url
FinishFeed(out) ==
  /\ lastIngest' = out
  /\ outcomes' = IF out = "raised" THEN outcomes ELSE Append(outcomes, out = "True")
  /\ raised' = IF out = "raised" THEN raised + 1 ELSE raised
  /\ payload' = "none"
  /\ timestamp' = -1
  /\ IF out = "raised"
     THEN Raise("Exception") /\ UNCHANGED <<results, pos>>
     ELSE /\ results' = record(results, SourceUrl(idx), out = "True")
          /\ IF sleeps_after(idx, R)
             THEN pc' = "rt_pause" /\ UNCHANGED pos
             ELSE Advance(idx, out = "True")
          /\ UNCHANGED <<pending, loopExit>>
  /\ UNCHANGED reported

\* a step that stays inside the ingest method
Stay ==
  UNCHANGED <<pending, loopExit, pos, results, reported, lastIngest, outcomes,
              raised>>

\* GET requests issued for source i in this cycle
Requests(i) == Cardinality({j \in 1..Len(fetchLog) : fetchLog[j] = i})

\* the fetch method has requests left for source i after one more failure
RequestsLeft(i) == Requests(i) + 1 < requests_per_fetch(max_retries)

\* gtfs_ingest.py:284 with 105-107, 130-139: the GET of the static bundle
FetchStatic ==
  /\ pc = "static_fetch"
  /\ \E t \in TransportOutcomes :
       /\ lastFetch' = FetchStatus(session, t)
       /\ IF static_response(session, t) = "None"
          THEN IF RequestsLeft(0)
               THEN pc' = pc /\ Stay /\ UNCHANGED srcv
               ELSE FinishStatic(ingest_gtfs_static_except("False"))
          ELSE /\ \E body \in (IF static_response(session, t) = "empty"
                               THEN {"bad_zip"} ELSE ZipBodies) :
                    payload' = body
               /\ pc' = "static_decode"
               /\ Stay
               /\ UNCHANGED timestamp
  /\ fetchLog' = Append(fetchLog, 0)
  /\ UNCHANGED <<inputs, dbv, decv, flags, runv, storeLog, pauses, lastStore, cycles, waits,
                 interruptedAt, files>>

\* gtfs_ingest.py:110-129, 137-139, 285-291: the archive is unpacked, the
\* timestamp is taken and store_gtfs_static_data is called
DecodeStatic ==
  /\ pc = "static_decode"
  /\ IF unzip(payload) = "None"
     THEN /\ FinishStatic(ingest_gtfs_static_except("False"))
          /\ UNCHANGED storeLog
     ELSE /\ \E c \in Clock : timestamp' = c
          /\ storeLog' = Append(storeLog, 0)
          /\ pc' = IF save_raw_static_zip THEN "static_store_raw"
                   ELSE "static_store_parsed"
          /\ Stay
          /\ UNCHANGED payload
  /\ UNCHANGED <<inputs, dbv, decv, flags, runv, fetchLog, pauses, lastFetch, lastStore,
                 cycles, waits, interruptedAt, files>>

\* database.py:172-174 with 58-65
StoreStaticRaw ==
  /\ pc = "static_store_raw"
  /\ \E io \in IoOutcomes :
       /\ files' = WriteFile(files, StaticRawName(timestamp), io)
       /\ IF io = "ok"
          THEN /\ pc' = "static_store_parsed"
               /\ Stay
               /\ UNCHANGED <<srcv, lastStore>>
          ELSE /\ lastStore' = store_raw_failure
               /\ FinishStatic(ingest_gtfs_static_except(store_raw_failure))
  /\ UNCHANGED <<inputs, dbv, decv, flags, runv, fetchLog, storeLog, pauses, lastFetch,
                 cycles, waits, interruptedAt>>

\* database.py:185-218
StoreStaticParsed ==
  /\ pc = "static_store_parsed"
  /\ \E io \in IoOutcomes, now \in Clock :
       /\ files' = WriteFile(files,
            StaticParsedName(artifact_timestamp(timestamp, now)), io)
       /\ lastStore' = IF io = "ok" THEN "True" ELSE store_parsed_failure
       /\ FinishStatic(ingest_gtfs_static_except(lastStore'))
  /\ UNCHANGED <<inputs, dbv, decv, flags, runv, fetchLog, storeLog, pauses, lastFetch,
                 cycles, waits, interruptedAt>>

\* gtfs_ingest.py:246 "if not raw_data": None and the empty bytes object are
\* both false.  The variant tests for None only.
raw_data_is_none(r) == r = "None"

not_raw_data(r) == r \in {"None", "empty"}

\* gtfs_ingest.py:245-248 with 72-89: the GET of a real-time feed; a
\* non-empty body is kept and the timestamp is taken
FetchRt ==
  /\ pc = "rt_fetch"
  /\ \E t \in TransportOutcomes :
       /\ lastFetch' = FetchStatus(session, t)
       /\ IF ~not_raw_data(fetch_gtfs_rt_data(session, t))
          THEN /\ \E body \in {"feed", "malformed"} : payload' = body
               /\ \E c \in Clock : timestamp' = c
               /\ pc' = "rt_parse"
               /\ Stay
          ELSE IF fetch_gtfs_rt_data(session, t) = "None" /\ RequestsLeft(idx)
               THEN pc' = pc /\ Stay /\ UNCHANGED srcv
               ELSE FinishFeed(ingest_feed_except("False"))
  /\ fetchLog' = Append(fetchLog, idx)
  /\ UNCHANGED <<inputs, dbv, decv, flags, runv, storeLog, pauses, lastStore, cycles, waits,
                 interruptedAt, files>>

\* gtfs_ingest.py:251-261 with 142-168: the decode, and on success the call
\* of store_gtfs_rt_data
ParseRt ==
  /\ pc = "rt_parse"
  /\ IF IsEmptyDict(parse_gtfs_rt_data(payload, Sources[idx].feed_type))
     THEN /\ FinishFeed(ingest_feed_except("False"))
          /\ UNCHANGED storeLog
     ELSE /\ storeLog' = Append(storeLog, idx)
          /\ pc' = IF save_raw_proto THEN "rt_store_raw" ELSE "rt_store_parsed"
          /\ Stay
          /\ UNCHANGED srcv
  /\ UNCHANGED <<inputs, dbv, decv, flags, runv, fetchLog, pauses, lastFetch, lastStore,
                 cycles, waits, interruptedAt, files>>

\* database.py:87-90 with 48-55
StoreRtRaw ==
  /\ pc = "rt_store_raw"
  /\ \E io \in IoOutcomes :
       /\ files' = WriteFile(files,
            RtRawName(parse_gtfs_rt_data(payload, Sources[idx].feed_type).feed_type,
                      timestamp), io)
       /\ IF io = "ok"
          THEN /\ pc' = "rt_store_parsed"
               /\ Stay
               /\ UNCHANGED <<srcv, lastStore>>
          ELSE /\ lastStore' = store_raw_failure
               /\ FinishFeed(ingest_feed_except(store_raw_failure))
  /\ UNCHANGED <<inputs, dbv, decv, flags, runv, fetchLog, storeLog, pauses, lastFetch,
                 cycles, waits, interruptedAt>>

\* database.py:98-149 (google_drive_manager is None: run_ingestion builds the
\* DatabaseManager without a gtfs_config)
StoreRtParsed ==
  /\ pc = "rt_store_parsed"
  /\ \E io \in IoOutcomes, now \in Clock :
       /\ files' = WriteFile(files,
            RtParsedName(parse_gtfs_rt_data(payload, Sources[idx].feed_type).feed_type,
                         artifact_timestamp(timestamp, now)), io)
       /\ lastStore' = IF io = "ok" THEN "True" ELSE store_parsed_failure
       /\ FinishFeed(ingest_feed_except(lastStore'))
  /\ UNCHANGED <<inputs, dbv, decv, flags, runv, fetchLog, storeLog, pauses, lastFetch,
                 cycles, waits, interruptedAt>>

\* gtfs_ingest.py:330, then the next feed or "return results" (line 332)
Pause ==
  /\ pc = "rt_pause"
  /\ pauses' = pauses + 1
  /\ Advance(idx, lastIngest = "True")
  /\ NoSource
  /\ UNCHANGED <<inputs, dbv, decv, flags, pending, loopExit, runv, results, fetchLog,
                 storeLog, outcomes, cycles, waits, interruptedAt, files, reported,
                 raised>>

\* gtfs_ingest.py:330: a statement of ingest_all_feeds outside the handlers
\* of ingest_feed raises (asyncio.sleep rejects a request_delay that is not
\* a number)
PauseRaises ==
  /\ pc = "rt_pause"
  /\ Raise("Exception")
  /\ raised' = raised + 1
  /\ UNCHANGED <<inputs, dbv, decv, flags, runv, pos, hist, srcv, outv, results, cycles, waits,
                 interruptedAt, files, reported>>

\* gtfs_ingest.py:348-354 and cli.py:68-70: the count of the cycle is
\* logged or echoed
CycleReport ==
  /\ pc = "cycle_done"
  /\ reported' = [form |-> "count", successful |-> Successful(results),
                  total |-> Len(results)]
  /\ IF mode = "continuous"
     THEN pc' = "wait" /\ UNCHANGED pending
     ELSE pc' = "aexit" /\ pending' = "return"
  /\ UNCHANGED <<inputs, dbv, decv, flags, loopExit, runv, pos, hist, srcv, outv,
                 results, cycles, waits, interruptedAt, files, raised>>

(* ----------------------- continuous_ingestion ------------------------- *)
\* gtfs_ingest.py:344-347: the top of the loop
BeginCycle ==
  /\ pc = "cycle_start"
  /\ cycles < MaxCycles
  /\ cycles' = cycles + 1
  /\ BeginAll
  /\ reported' = [form |-> "none", successful |-> 0, total |-> 0]
  /\ UNCHANGED <<inputs, dbv, decv, flags, pending, loopExit, runv, interruptedAt,
                 files, raised, waits>>

\* gtfs_ingest.py:344: "while True".  The variant leaves the loop after
\* one pass.
loop_condition_once == FALSE

loop_condition == TRUE

\* the loop statement is reached again
LoopAgain ==
  IF loop_condition
  THEN pc' = "cycle_start" /\ UNCHANGED <<pending, loopExit>>
  ELSE pc' = "aexit" /\ pending' = "return" /\ loopExit' = "condition_false"

\* gtfs_ingest.py:354: the sleep between two cycles ends
Wait ==
  /\ pc = "wait"
  /\ waits' = waits + 1
  /\ LoopAgain
  /\ UNCHANGED <<inputs, dbv, decv, flags, runv, pos, hist, srcv,
                 outv, results, cycles, interruptedAt, files, reported, raised>>

\* gtfs_ingest.py:362: the sleep of the error handler ends
ErrorWait ==
  /\ pc = "error_wait"
  /\ waits' = waits + 1
  /\ LoopAgain
  /\ UNCHANGED <<inputs, dbv, decv, flags, runv, pos, hist, srcv,
                 outv, results, cycles, interruptedAt, files, reported, raised>>

(* ----------------------------- environment ---------------------------- *)
\* the positions of the run inside the async-with block of run_ingestion
InsideWith ==
  {"dispatch", "cycle_start", "static_fetch", "static_decode",
   "static_store_raw", "static_store_parsed", "rt_fetch", "rt_parse",
   "rt_store_raw", "rt_store_parsed", "rt_pause", "cycle_done", "wait",
   "error_wait"}

\* cli.py:106: how asyncio.run hands SIGINT to the coroutine.  Its handler
\* cancels the main task, so CancelledError is thrown at the await in
\* progress; where the default handler is in place and the signal arrives
\* while the coroutine itself executes, KeyboardInterrupt is raised there.
InterruptDelivery == {"KeyboardInterrupt", "CancelledError"}

\* the operator interrupts the run at the statement in progress
KeyboardInterrupt ==
  /\ pc \in InsideWith
  /\ interruptedAt = "none"
  /\ interruptedAt' = pc
  /\ \E exc \in InterruptDelivery : Raise(exc)
  /\ UNCHANGED <<inputs, dbv, decv, flags, runv, pos, hist, srcv, outv, results, cycles, waits,
                 files, reported, raised>>

Next ==
  \/ Construct \/ AEnter
  \/ DispatchOnceStatic \/ DispatchOnceAll \/ DispatchMissingMethod
  \/ DispatchUnsupported \/ DispatchContinuous
  \/ BeginCycle \/ FetchStatic \/ DecodeStatic \/ StoreStaticRaw
  \/ StoreStaticParsed \/ FetchRt \/ ParseRt \/ StoreRtRaw \/ StoreRtParsed
  \/ Pause \/ PauseRaises \/ CycleReport \/ Wait \/ ErrorWait
  \/ KeyboardInterrupt \/ AExit \/ Finally

Spec == Init /\ [][Next]_vars


(* ------------- the DatabaseManager under a direct caller -------------- *)
\* The store methods are public: a caller other than GTFSIngest may build a
\* DatabaseManager with a gtfs_config (database.py:41-42) and call them with
\* any feed, url and timestamp.  raw is "raw_bytes is given and not empty",
\* which the caller followed here always does, as GTFSIngest does
\* (gtfs_ingest.py:259, 294); ts is the timestamp argument, -1 for None.
InitStore ==
  /\ feeds = << <<"trip_updates", <<"a">> >>, <<"vehicle_positions", <<"b">> >> >>
  /\ once = TRUE
  /\ feed_type = "all"
  /\ env_proto \in EnvValues
  /\ env_zip \in EnvValues
  /\ save_raw_proto = FALSE
  /\ save_raw_static_zip = FALSE
  /\ session = "none"
  /\ pc = "db_new"
  /\ mode = "none"
  /\ pending = "none"
  /\ loopExit = "none"
  /\ exitPath = "none"
  /\ exitCode = -1
  /\ dbCloses = 0
  /\ cycles = 0
  /\ interruptedAt = "none"
  /\ inCycle = FALSE
  /\ idx = 0
  /\ results = << >>
  /\ fetchLog = << >>
  /\ storeLog = << >>
  /\ pauses = 0
  /\ outcomes = << >>
  /\ raised = 0
  /\ payload = "none"
  /\ timestamp = -1
  /\ files = {}
  /\ lastFetch = "none"
  /\ lastStore = "none"
  /\ lastIngest = "none"
  /\ reported = [form |-> "none", successful |-> 0, total |-> 0]
  /\ google_drive_manager = FALSE
  /\ call = NoCall
  /\ prev = NoCall
  /\ ncalls = 0
  /\ lastUpload = "none"
  /\ waits = 0
  /\ NoDecode

\* the variables of the run, which a direct caller does not touch
runIdle ==
  <<feeds, once, feed_type, env_proto, env_zip, pending, loopExit, runv, pos,
    hist, srcv, lastFetch, lastIngest, results, cycles, waits, raised,
    interruptedAt, reported, decv>>

\* the values of data['feed_type'] and of feed_url a direct caller passes
CallKinds == {"trip_updates", "vehicle_positions"}
CallUrls == {"a", "b"}

\* database.py:24-42
DbConstruct ==
  /\ pc = "db_new"
  /\ save_raw_proto' = EnvFlag(env_proto)
  /\ save_raw_static_zip' = EnvFlag(env_zip)
  /\ \E gtfs_config \in BOOLEAN : google_drive_manager' = gtfs_config
  /\ pc' = "db_idle"
  /\ UNCHANGED <<runIdle, files, lastStore, call, prev, ncalls, lastUpload>>

\* os.environ of the process: the two variables that os.getenv reads at
\* database.py:33-34 are changed while the DatabaseManager is idle, each to
\* the other of its values ("1" is unset, an unset one is set to "1")
Setenv ==
  /\ pc = "db_idle"
  /\ env_proto' = (IF env_proto = "1" THEN "unset" ELSE "1")
  /\ env_zip' = (IF env_zip = "1" THEN "unset" ELSE "1")
  /\ UNCHANGED <<feeds, once, feed_type, pc, pending, loopExit, runv, pos,
                 hist, srcv, lastFetch, lastIngest, results, cycles, waits, raised,
                 interruptedAt, reported, decv, flags, files, lastStore, dbv>>

\* database.py:88 and 172: the store methods read the attribute that
\* __init__ set (flag), not the environment (env).  The variant reads the
\* environment at every call.
flag_from_environment(flag, env) == EnvFlag(env)

flag_of_instance(flag, env) == flag

\* database.py:88 and 172: "if self.save_raw_... and raw_bytes and timestamp"
raw_write_due(flag, raw, ts) == flag /\ raw /\ ts # -1

\* a store method returns result (or raises, for "raised")
Return(result) ==
  /\ call' = [call EXCEPT !.result = result]
  /\ lastStore' = result
  /\ pc' = "db_idle"
  /\ UNCHANGED prev

\* database.py:68-90: store_gtfs_rt_data is called
CallStoreRt ==
  /\ pc = "db_idle"
  /\ ncalls < MaxCalls
  /\ ncalls' = ncalls + 1
  /\ \E k \in CallKinds, u \in CallUrls, ts \in Clock \cup {-1} :
       /\ call' = [method |-> "rt", kind |-> k, url |-> u, raw |-> TRUE,
                   ts |-> ts, stamp |-> ts, result |-> "running"]
       /\ pc' = IF raw_write_due(flag_of_instance(save_raw_proto, env_proto),
                                  TRUE, ts)
                THEN "db_rt_raw" ELSE "db_rt_parsed"
  /\ prev' = call
  /\ lastUpload' = "none"
  /\ UNCHANGED <<runIdle, flags, files, lastStore, google_drive_manager>>

\* database.py:151-174: store_gtfs_static_data is called
CallStoreStatic ==
  /\ pc = "db_idle"
  /\ ncalls < MaxCalls
  /\ ncalls' = ncalls + 1
  /\ \E ts \in Clock \cup {-1} :
       /\ call' = [method |-> "static", kind |-> "", url |-> gtfs_static_url,
                   raw |-> TRUE, ts |-> ts, stamp |-> ts, result |-> "running"]
       /\ pc' = IF raw_write_due(flag_of_instance(save_raw_static_zip,
                                                   env_zip), TRUE, ts)
                THEN "db_static_raw" ELSE "db_static_parsed"
  /\ prev' = call
  /\ lastUpload' = "none"
  /\ UNCHANGED <<runIdle, flags, files, lastStore, google_drive_manager>>

\* database.py:88-90 with 48-55
DbRtRaw ==
  /\ pc = "db_rt_raw"
  /\ \E io \in IoOutcomes :
       /\ files' = WriteFile(files, RtRawName(call.kind, call.ts), io)
       /\ IF io = "ok"
          THEN pc' = "db_rt_parsed" /\ UNCHANGED <<call, prev, lastStore>>
          ELSE Return(store_raw_failure)
  /\ UNCHANGED <<runIdle, flags, google_drive_manager, ncalls, lastUpload>>

\* database.py:172-174 with 58-65
DbStaticRaw ==
  /\ pc = "db_static_raw"
  /\ \E io \in IoOutcomes :
       /\ files' = WriteFile(files, StaticRawName(call.ts), io)
       /\ IF io = "ok"
          THEN pc' = "db_static_parsed" /\ UNCHANGED <<call, prev, lastStore>>
          ELSE Return(store_raw_failure)
  /\ UNCHANGED <<runIdle, flags, google_drive_manager, ncalls, lastUpload>>

\* database.py:99-123 and 149: the parsed write; without a
\* google_drive_manager the method returns True after it
DbRtParsed ==
  /\ pc = "db_rt_parsed"
  /\ \E io \in IoOutcomes, now \in Clock :
       /\ files' = WriteFile(files,
            RtParsedName(call.kind, artifact_timestamp(call.ts, now)), io)
       /\ IF io # "ok"
          THEN Return(store_parsed_failure)
          ELSE IF google_drive_manager
          THEN /\ call' = [call EXCEPT !.stamp = artifact_timestamp(call.ts, now)]
               /\ pc' = "db_upload"
               /\ UNCHANGED <<prev, lastStore>>
          ELSE /\ call' = [call EXCEPT !.stamp = artifact_timestamp(call.ts, now),
                                       !.result = "True"]
               /\ lastStore' = "True"
               /\ pc' = "db_idle"
               /\ UNCHANGED prev
  /\ UNCHANGED <<runIdle, flags, google_drive_manager, ncalls, lastUpload>>

\* database.py:185-218
DbStaticParsed ==
  /\ pc = "db_static_parsed"
  /\ \E io \in IoOutcomes, now \in Clock :
       /\ files' = WriteFile(files,
            StaticParsedName(artifact_timestamp(call.ts, now)), io)
       /\ IF io # "ok"
          THEN Return(store_parsed_failure)
          ELSE /\ call' = [call EXCEPT !.stamp = artifact_timestamp(call.ts, now),
                                       !.result = "True"]
               /\ lastStore' = "True"
               /\ pc' = "db_idle"
               /\ UNCHANGED prev
  /\ UNCHANGED <<runIdle, flags, google_drive_manager, ncalls, lastUpload>>

\* how the block database.py:124-147 can end: upload_file returned True,
\* returned False, or something in the block raised an Exception
UploadOutcomes == {"True", "False", "raised"}

\* database.py:141-149: what store_gtfs_rt_data returns after the upload
\* block ended in o.  The variant passes a failed upload on to the caller.
upload_decides(o) == IF o = "True" THEN "True" ELSE "False"

store_result_after_upload(o) == "True"

\* database.py:123-149
DbUpload ==
  /\ pc = "db_upload"
  /\ \E o \in UploadOutcomes :
       /\ lastUpload' = o
       /\ Return(store_result_after_upload(o))
  /\ UNCHANGED <<runIdle, flags, files, google_drive_manager, ncalls>>

NextStore ==
  \/ DbConstruct \/ Setenv \/ CallStoreRt \/ CallStoreStatic \/ DbRtRaw
  \/ DbStaticRaw \/ DbRtParsed \/ DbStaticParsed \/ DbUpload

SpecStore == InitStore /\ [][NextStore]_vars


(* ------------------- the decoders and what is dumped ------------------ *)
\* ingest_feed and ingest_gtfs_static followed from the body they received
\* to the object that is dumped, over the messages and archives a body can
\* hold.  The raw-save flags are off, as without the environment variables.
InitDecode ==
  /\ feeds = << <<"trip_updates", <<"a">> >>, <<"vehicle_positions", <<"b">> >> >>
  /\ once = TRUE
  /\ feed_type = "all"
  /\ env_proto = "unset"
  /\ env_zip = "unset"
  /\ save_raw_proto = FALSE
  /\ save_raw_static_zip = FALSE
  /\ session = "open"
  /\ mode \in {"decode_rt", "decode_static"}
  /\ pc = IF mode = "decode_rt" THEN "dec_rt" ELSE "dec_static"
  /\ pending = "none"
  /\ loopExit = "none"
  /\ exitPath = "none"
  /\ exitCode = -1
  /\ dbCloses = 0
  /\ cycles = 0
  /\ waits = 0
  /\ interruptedAt = "none"
  /\ inCycle = FALSE
  /\ idx = 0
  /\ results = << >>
  /\ fetchLog = << >>
  /\ storeLog = << >>
  /\ pauses = 0
  /\ outcomes = << >>
  /\ raised = 0
  /\ payload = "none"
  /\ timestamp = -1
  /\ files = {}
  /\ lastFetch = "body"
  /\ lastStore = "none"
  /\ lastIngest = "none"
  /\ reported = [form |-> "none", successful |-> 0, total |-> 0]
  /\ google_drive_manager = FALSE
  /\ call = NoCall
  /\ prev = NoCall
  /\ ncalls = 0
  /\ lastUpload = "none"
  /\ raw_data \in (IF mode = "decode_rt" THEN FeedData ELSE {Malformed})
  /\ requested \in (IF mode = "decode_rt"
                    THEN {"trip_updates", "vehicle_positions", "alerts"}
                    ELSE {""})
  /\ zip_data \in (IF mode = "decode_static" THEN ZipData ELSE {NotAnArchive})
  /\ parsed_data = EmptyDict
  /\ gtfs_data = {}
  /\ json_data = [keys |-> {}]

\* the variables the decoders and the dump do not touch
decIdle ==
  <<inputs, flags, pending, loopExit, runv, pos, hist, payload, lastFetch,
    dbv, results, cycles, waits, raised, interruptedAt, reported, raw_data,
    zip_data, requested>>

\* gtfs_ingest.py:252 "if not parsed_data": a dict is false when it has no
\* key.  The variant also takes a dict without records for a failure.
not_parsed_data_or_no_record(d) ==
  d.keys = {} \/ (d.trip_updates = << >> /\ d.vehicle_positions = << >>)

not_parsed_data(d) == d.keys = {}

\* gtfs_ingest.py:248-253 with 153-168: the timestamp is taken and the
\* bytes are decoded; an empty dict ends ingest_feed with False
ParseMessage ==
  /\ pc = "dec_rt"
  /\ \E c \in Clock : timestamp' = c
  /\ parsed_data' = parse_gtfs_rt_message(raw_data, requested)
  /\ IF not_parsed_data(parsed_data')
     THEN pc' = "dec_done" /\ lastIngest' = ingest_feed_except("False")
     ELSE pc' = "dec_store_rt" /\ UNCHANGED lastIngest
  /\ UNCHANGED <<decIdle, files, lastStore, gtfs_data, json_data>>

\* database.py:87-120, 149 (no raw write, no google_drive_manager) and
\* gtfs_ingest.py:263-268
DumpRt ==
  /\ pc = "dec_store_rt"
  /\ \E io \in IoOutcomes :
       /\ files' = WriteFile(files, RtParsedName(parsed_data.feed_type, timestamp), io)
       /\ json_data' = IF io = "ok" THEN json_dump(parsed_data) ELSE json_data
       /\ lastStore' = IF io = "ok" THEN "True" ELSE store_parsed_failure
       /\ lastIngest' = ingest_feed_except(lastStore')
  /\ pc' = "dec_done"
  /\ UNCHANGED <<decIdle, timestamp, parsed_data, gtfs_data>>

\* gtfs_ingest.py:110-129, 137-139 and 285-288: the archive is unpacked;
\* None ends ingest_gtfs_static with False, otherwise the timestamp is taken
UnpackArchive ==
  /\ pc = "dec_static"
  /\ IF unpack(zip_data).none
     THEN /\ pc' = "dec_done"
          /\ lastIngest' = ingest_gtfs_static_except("False")
          /\ UNCHANGED <<gtfs_data, timestamp>>
     ELSE /\ gtfs_data' = unpack(zip_data).gtfs_data
          /\ \E c \in Clock : timestamp' = c
          /\ pc' = "dec_store_static"
          /\ UNCHANGED lastIngest
  /\ UNCHANGED <<decIdle, files, lastStore, parsed_data, json_data>>

\* database.py:172-218 (no raw write) and gtfs_ingest.py:298-303
DumpStatic ==
  /\ pc = "dec_store_static"
  /\ \E io \in IoOutcomes :
       /\ files' = WriteFile(files, StaticParsedName(timestamp), io)
       /\ json_data' = IF io = "ok"
                       THEN static_json(gtfs_data, gtfs_static_url, timestamp)
                       ELSE json_data
       /\ lastStore' = IF io = "ok" THEN "True" ELSE store_parsed_failure
       /\ lastIngest' = ingest_gtfs_static_except(lastStore')
  /\ pc' = "dec_done"
  /\ UNCHANGED <<decIdle, timestamp, parsed_data, gtfs_data>>

NextDecode == ParseMessage \/ DumpRt \/ UnpackArchive \/ DumpStatic

SpecDecode == InitDecode /\ [][NextDecode]_vars

(* ---------------- GTFSIngest outside the async with block ------------- *)
\* A caller builds the DatabaseManager and the GTFSIngest and calls an
\* ingest method without entering the context manager: __aenter__ has not
\* run and self.session is what __init__ left (gtfs_ingest.py:44).
InitDirect == Init /\ once /\ feed_type = "all"

\* gtfs_ingest.py:310-320: ingest_all_feeds is called on the new object
CallIngestAllFeeds ==
  /\ pc = "aenter" /\ session = "none"
  /\ mode' = "all_once"
  /\ BeginAll
  /\ UNCHANGED <<inputs, dbv, decv, flags, pending, loopExit, session, exitPath,
                 exitCode, dbCloses, cycles, waits, interruptedAt, files,
                 reported, raised>>

\* gtfs_ingest.py:274-284: ingest_gtfs_static is called on the new object
CallIngestGtfsStatic ==
  /\ pc = "aenter" /\ session = "none"
  /\ mode' = "static_once"
  /\ pc' = "static_fetch"
  /\ UNCHANGED <<inputs, dbv, decv, flags, pending, loopExit, session, exitPath,
                 exitCode, dbCloses, pos, hist, srcv, outv, results, cycles,
                 waits, interruptedAt, files, reported, raised>>

NextDirect ==
  \/ Construct \/ CallIngestAllFeeds \/ CallIngestGtfsStatic
  \/ FetchStatic \/ FetchRt \/ Pause \/ PauseRaises

SpecDirect == InitDirect /\ [][NextDirect]_vars

(* ------------------------------ properties ---------------------------- *)
\* the urls of the configuration are pairwise distinct
DistinctUrls == Cardinality({SourceUrl(i) : i \in 0..R}) = R + 1

\* the positions of a continuous run inside the try block of the loop
TryBody ==
  {"cycle_start", "static_fetch", "static_decode", "static_store_raw",
   "static_store_parsed", "rt_fetch", "rt_parse", "rt_store_raw",
   "rt_store_parsed", "rt_pause", "cycle_done", "wait"}

\* a real-time source is being processed
RtSteps == {"rt_fetch", "rt_parse", "rt_store_raw", "rt_store_parsed", "rt_pause"}

\* the positions of an ingest method after its fetch returned a payload
AfterFetch ==
  {"static_decode", "static_store_raw", "static_store_parsed", "rt_parse",
   "rt_store_raw", "rt_store_parsed"}

\* the run has left the orchestrator
Left == {"aexit", "finally", "done"}

\* C1: when ingest_all_feeds returns over pairwise distinct urls, the map has
\* one entry per source, keyed by its url and in encounter order, whose value
\* is what the ingest of that source returned (so as many False entries as
\* sources failed), and every source was fetched exactly once.
C1_ResultMap ==
  (pc = "cycle_done" /\ DistinctUrls) =>
     /\ Len(results) = R + 1
     /\ Len(outcomes) = R + 1
     /\ \A i \in 0..R : results[i + 1] = <<SourceUrl(i), outcomes[i + 1]>>
     /\ Cardinality({j \in 1..Len(results) : ~results[j][2]})
          = Cardinality({j \in 1..Len(outcomes) : ~outcomes[j]})
     /\ fetchLog = [j \in 1..(R + 1) |-> j - 1]

\* the three-feed scenario: the first feed failed, the cycle went on and the
\* other two succeeded
C1_Witness ==
  /\ pc = "cycle_done" /\ DistinctUrls /\ R = 3
  /\ results = << <<"s", TRUE>>, <<"a", FALSE>>, <<"b", TRUE>>, <<"c", TRUE>> >>

\* C2: a source whose GET failed has returned False, is in none of the
\* positions after a fetch, has had no store method called for it, and the
\* step of the failing GET wrote no file.
C2_FailedFetch ==
  /\ [](lastFetch = "failed" =>
          /\ lastIngest = "False"
          /\ pc \notin AfterFetch
          /\ \A j \in 1..Len(storeLog) : storeLog[j] # fetchLog[Len(fetchLog)])
  /\ [][(fetchLog' # fetchLog /\ lastFetch' = "failed") =>
          (files' = files /\ storeLog' = storeLog)]_vars

C2_Witness ==
  /\ lastFetch = "failed" /\ lastIngest = "False" /\ pc = "rt_pause"
  /\ save_raw_proto /\ files = {}

\* C3: a cycle with R real-time sources has made R-1 pauses when it returns
\* (none when R <= 1)
C3_PausesBetween ==
  pc = "cycle_done" => pauses = (IF R <= 1 THEN 0 ELSE R - 1)

\* C4: the sources are fetched in the order static bundle, then the feeds as
\* configured (kinds in configuration order, urls in list order), and a
\* real-time source is only processed once the outcome of the static bundle
\* is recorded.
C4_Order ==
  /\ fetchLog = [j \in 1..Len(fetchLog) |-> j - 1]
  /\ \A k \in 1..Len(feeds) :
       LET ofKind == SelectSeq(Sources, LAMBDA x : x.feed_type = feeds[k][1])
       IN  [j \in 1..Len(ofKind) |-> ofKind[j].feed_url] = feeds[k][2]
  /\ \A i, j \in 1..R :
       i < j => \E k, l \in 1..Len(feeds) :
                  k <= l /\ Sources[i].feed_type = feeds[k][1]
                         /\ Sources[j].feed_type = feeds[l][1]
  /\ pc \in RtSteps =>
       /\ idx >= 1
       /\ Len(results) >= 1 /\ results[1][1] = gtfs_static_url
       /\ Len(outcomes) >= 1
       /\ fetchLog # << >> /\ fetchLog[1] = 0

C4_Witness ==
  /\ pc = "rt_fetch" /\ idx = 3 /\ fetchLog = <<0, 1, 2>>
  /\ Sources[3] = [feed_type |-> "vehicle_positions", feed_url |-> "c"]

\* C5: neither ingest method ever ends by raising: when the store call
\* raised, the ingest call returned False, and an exception only ever leaves
\* ingest_all_feeds from its own pause, never from an ingest call.
C5_NeverRaises ==
  /\ [](/\ lastIngest \in {"none", "True", "False"}
        /\ lastStore = "raised" => lastIngest = "False")
  /\ [][raised' # raised => pc = "rt_pause"]_vars

C5_Witness == lastStore = "raised" /\ lastIngest = "False" /\ raised = 0

\* C6: store_gtfs_rt_data and store_gtfs_static_data never end by raising
C6_StoreNeverRaises == lastStore # "raised"

\* C7: in continuous_ingestion an exception raised inside a cycle takes the
\* loop to the wait of its handler, from there to the top of the loop, and
\* from there into a new cycle; a continuous run never ends through the
\* error path.
C7_ErrorRetried ==
  /\ [](mode = "continuous" => (pending # "Exception" /\ exitPath # "error"))
  /\ [][(mode = "continuous" /\ raised' # raised) => pc' = "error_wait"]_vars
  /\ [][(pc = "error_wait" /\ pc' # pc /\ interruptedAt' = interruptedAt)
          => pc' = "cycle_start"]_vars
  /\ [][(pc = "cycle_start" /\ pc' # pc /\ interruptedAt' = interruptedAt)
          => (pc' = "static_fetch" /\ cycles' = cycles + 1)]_vars

C7_Witness ==
  /\ mode = "continuous" /\ raised = 1 /\ cycles = 2 /\ pc = "static_fetch"
  /\ interruptedAt = "none"

\* C8: without an operator interrupt a continuous run is always inside its
\* loop
C8_NeverExits ==
  (mode = "continuous" /\ interruptedAt = "none") =>
     (pc \notin Left /\ loopExit = "none" /\ exitCode = -1)

C8_Witness ==
  /\ mode = "continuous" /\ interruptedAt = "none" /\ pc = "wait"
  /\ cycles = 2 /\ raised = 1 /\ Successful(results) < Len(results)

\* C9: a continuous run that was interrupted by the operator and has ended,
\* has ended with exit code zero through a stopped-by-user path
C9_InterruptStops ==
  (mode = "continuous" /\ interruptedAt # "none" /\ pc = "done") =>
     /\ exitCode = 0
     /\ (loopExit = "stopped_by_user" \/ exitPath = "stopped_by_user")

FetchSteps == {"static_fetch", "rt_fetch"}

\* C11: the session is opened once and closed once (none -> open -> closed
\* are its only changes), it is open whenever a GET is issued, and a run
\* that has ended, however it ended, has closed it.
C11_SessionOnce ==
  /\ [](pc \in FetchSteps => session = "open")
  /\ [](pc \in {"finally", "done"} => session = "closed")
  /\ [](pc \in {"start", "aenter"} => session = "none")
  /\ [][session' # session =>
          \/ (session = "none" /\ session' = "open" /\ pc = "aenter")
          \/ (session = "open" /\ session' = "closed" /\ pc = "aexit")]_vars
  /\ [][fetchLog' # fetchLog /\ fetchLog' # << >> => session = "open"]_vars

\* a continuous run that fetched, was cancelled during a GET and has ended
\* with its session closed
C11_Witness ==
  /\ pc = "done" /\ session = "closed" /\ pending = "CancelledError"
  /\ interruptedAt = "rt_fetch" /\ exitPath = "uncaught"

\* a store method of the Artifact Store is executing
StoreSteps ==
  {"static_store_raw", "static_store_parsed", "rt_store_raw", "rt_store_parsed"}

\* the feed types GTFSIngest decodes
KnownKinds == {"trip_updates", "vehicle_positions"}

\* the body in hand of source i was fetched whole and decodes
Decodes(i, body) ==
  IF i = 0 THEN body \in {"zip", "zip_bad_table"}
  ELSE body = "feed" /\ Sources[i].feed_type \in KnownKinds

\* C12: a store method is entered, and a file is written, only for the
\* source in progress, after its GET delivered a body and that body was
\* decoded, and never by the step in which an interrupt arrives.
C12_StoreAfterDecode ==
  /\ [](pc \in StoreSteps =>
          /\ lastFetch = "body" /\ Decodes(idx, payload)
          /\ fetchLog # << >> /\ fetchLog[Len(fetchLog)] = idx
          /\ storeLog # << >> /\ storeLog[Len(storeLog)] = idx)
  /\ [][(storeLog' # storeLog /\ storeLog' # << >>) =>
          /\ storeLog' = Append(storeLog, idx)
          /\ lastFetch = "body" /\ Decodes(idx, payload)
          /\ fetchLog[Len(fetchLog)] = idx
          /\ interruptedAt' = interruptedAt]_vars
  /\ [][files' # files =>
          (pc \in StoreSteps /\ interruptedAt' = interruptedAt)]_vars

\* the static bundle was persisted; the GET of the first feed delivered a
\* body, the run was interrupted while decoding it, nothing of it is stored
C12_Witness ==
  /\ pc = "aexit" /\ interruptedAt = "rt_parse" /\ payload = "feed"
  /\ fetchLog = <<0, 1>> /\ storeLog = <<0>>
  /\ files = {StaticParsedName(0)}

\* C13: when the body of a real-time feed does not decode (malformed bytes,
\* or a feed type other than trip_updates / vehicle_positions), the decode
\* step ends ingest_feed with False, no store method is entered and no file
\* is written.
C13_DecodeFailure ==
  /\ [](pc \in {"rt_store_raw", "rt_store_parsed"} =>
          (payload = "feed" /\ Sources[idx].feed_type \in KnownKinds))
  /\ [][(pc = "rt_parse" /\ pc' # pc /\ interruptedAt' = interruptedAt
            /\ (payload = "malformed" \/ Sources[idx].feed_type \notin KnownKinds))
          => /\ lastIngest' = "False"
             /\ outcomes' = Append(outcomes, FALSE)
             /\ storeLog' = storeLog
             /\ files' = files]_vars

\* a feed of type alerts was fetched and ingest_feed returned False without
\* a store call
C13_Witness ==
  /\ pc = "rt_pause" /\ idx = 1 /\ Sources[1].feed_type = "alerts"
  /\ lastFetch = "body" /\ lastIngest = "False" /\ lastStore = "none"
  /\ fetchLog = <<0, 1>> /\ \A j \in 1..Len(storeLog) : storeLog[j] # 1

\* C14: after a successful decode the store goes to the raw write first when
\* the flag is on and to the parsed write otherwise; the parsed write is
\* made with the raw file already in place; the ingest method returns what
\* the parsed write ended in (True: the parsed file is there, False: no file
\* was written).  When the raw write fails, the parsed write is not made
\* and the ingest method returns False.
C14_RawThenParsed ==
  /\ [][(pc = "rt_parse" /\ storeLog' # storeLog) =>
          pc' = (IF save_raw_proto THEN "rt_store_raw" ELSE "rt_store_parsed")]_vars
  /\ [][(pc = "static_decode" /\ storeLog' # storeLog) =>
          pc' = (IF save_raw_static_zip THEN "static_store_raw"
                 ELSE "static_store_parsed")]_vars
  /\ [][(pc = "rt_store_raw" /\ pc' # pc /\ interruptedAt' = interruptedAt) =>
          \/ /\ pc' = "rt_store_parsed"
             /\ files' = files \cup {RtRawName(Sources[idx].feed_type, timestamp)}
          \/ /\ files' = files /\ lastStore' = "raised" /\ lastIngest' = "False"
             /\ pc' # "rt_store_parsed"]_vars
  /\ [][(pc = "static_store_raw" /\ pc' # pc /\ interruptedAt' = interruptedAt) =>
          \/ /\ pc' = "static_store_parsed"
             /\ files' = files \cup {StaticRawName(timestamp)}
          \/ /\ files' = files /\ lastStore' = "raised" /\ lastIngest' = "False"
             /\ pc' # "static_store_parsed"]_vars
  /\ [][(pc = "rt_store_parsed" /\ pc' # pc /\ interruptedAt' = interruptedAt) =>
          /\ save_raw_proto => RtRawName(Sources[idx].feed_type, timestamp) \in files
          /\ lastStore' \in {"True", "False"} /\ lastIngest' = lastStore'
          /\ lastStore' = "True" =>
               files' = files \cup {RtParsedName(Sources[idx].feed_type, timestamp)}
          /\ lastStore' = "False" => files' = files]_vars
  /\ [][(pc = "static_store_parsed" /\ pc' # pc /\ interruptedAt' = interruptedAt) =>
          /\ save_raw_static_zip => StaticRawName(timestamp) \in files
          /\ lastStore' \in {"True", "False"} /\ lastIngest' = lastStore'
          /\ lastStore' = "True" => files' = files \cup {StaticParsedName(timestamp)}
          /\ lastStore' = "False" => files' = files]_vars

\* the first feed was stored raw and parsed and ingest_feed returned True,
\* after a static bundle whose parsed write failed
C14_Witness ==
  /\ pc = "rt_pause" /\ idx = 1 /\ save_raw_proto /\ save_raw_static_zip
  /\ lastStore = "True" /\ lastIngest = "True" /\ outcomes = <<FALSE, TRUE>>
  /\ files = {StaticRawName(0), RtRawName(Sources[1].feed_type, 1),
              RtParsedName(Sources[1].feed_type, 1)}

\* C15: a .pb file exists only with save_raw_proto on and a .zip file only
\* with save_raw_static_zip on; each flag is on exactly when its own
\* environment variable is "1"; and a feed that was decoded has had its
\* parsed write made, whatever the flags.
C15_FlagsOnlyAddRaw ==
  /\ ~save_raw_proto => \A f \in files : f.ext # "pb"
  /\ ~save_raw_static_zip => \A f \in files : f.ext # "zip"
  /\ pc # "start" => /\ save_raw_proto = (env_proto = "1")
                     /\ save_raw_static_zip = (env_zip = "1")
  /\ (pc = "rt_pause" /\ storeLog # << >> /\ storeLog[Len(storeLog)] = idx)
       => lastStore \in {"True", "False"}

\* an ingest method holds a timestamp
Stamped ==
  {"rt_parse", "rt_store_raw", "rt_store_parsed", "static_store_raw",
   "static_store_parsed"}

\* C16: an ingest method takes its timestamp once, in the step in which the
\* fetch (for the static bundle: fetch and unpacking) has succeeded, keeps
\* it until it ends, and every file written for the source carries it.
C16_OneTimestamp ==
  /\ [](pc \in Stamped => (timestamp \in Clock /\ lastFetch = "body"))
  /\ [][(timestamp' # timestamp /\ timestamp' # -1) =>
          /\ timestamp = -1
          /\ pc \in {"rt_fetch", "static_decode"}
          /\ lastFetch' = "body"]_vars
  /\ [][(timestamp # -1 /\ timestamp' # timestamp) =>
          (timestamp' = -1 /\ pc' \notin Stamped)]_vars
  /\ [][files' # files => \A f \in files' \ files : f.ts = timestamp]_vars

\* the static bundle was stored under one reading of the clock and the first
\* feed, raw and parsed, under another
C16_Witness ==
  /\ pc = "rt_pause" /\ idx = 1 /\ save_raw_proto /\ ~save_raw_static_zip
  /\ lastIngest = "True" /\ outcomes = <<TRUE, TRUE>>
  /\ files = {StaticParsedName(0), RtRawName(Sources[1].feed_type, 1),
              RtParsedName(Sources[1].feed_type, 1)}

\* two store calls with the same method, feed type, url and timestamp
SameTuple(c, d) ==
  /\ c.method = d.method /\ c.kind = d.kind /\ c.url = d.url /\ c.ts = d.ts

\* C17: when a store call is made with the method, feed type, url and
\* timestamp of the call before it, which returned True, its parsed write
\* and its raw write replace the files of that call: the set of files stays
\* as it was.
C17_SameTupleSameFile ==
  /\ [][(pc \in {"db_rt_parsed", "db_static_parsed"} /\ SameTuple(prev, call)
            /\ prev.result = "True" /\ call.ts # -1) => files' = files]_vars
  /\ [][(pc \in {"db_rt_raw", "db_static_raw"} /\ SameTuple(prev, call)
            /\ prev.result = "True" /\ prev.raw) => files' = files]_vars

\* two calls for the same feed and timestamp both returned True, raw and
\* parsed were written twice, and there are two files
C17_Witness ==
  /\ pc = "db_idle" /\ ncalls = 2 /\ SameTuple(prev, call)
  /\ call.method = "rt" /\ call.ts = 0 /\ call.raw /\ prev.raw /\ save_raw_proto
  /\ prev.result = "True" /\ call.result = "True"
  /\ files = {RtRawName(call.kind, 0), RtParsedName(call.kind, 0)}

\* C18: in a one-shot pass over distinct urls every source that succeeded
\* has a parsed file of its own: there are as many parsed files as successes
C18_OneFilePerSource ==
  (mode = "all_once" /\ pc = "cycle_done" /\ DistinctUrls) =>
     Cardinality({f \in files : f.ext = "json"}) = Successful(results)

\* C20: the upload is only attempted by store_gtfs_rt_data of a manager that
\* has a google_drive_manager, with the parsed file of the call written; the
\* step of the upload changes no file, and however it ends the call returns
\* True.
C20_UploadNeverDecides ==
  /\ [](pc = "db_upload" =>
          /\ google_drive_manager /\ call.method = "rt"
          /\ \E f \in files : /\ f.ext = "json" /\ f.prefix = "gtfs_rt"
                               /\ f.feed_type = call.kind /\ f.ts = call.stamp)
  /\ [](lastUpload # "none" => (google_drive_manager /\ call.method = "rt"))
  /\ [][lastUpload' # lastUpload /\ lastUpload' # "none" => pc = "db_upload"]_vars
  /\ [][pc = "db_upload" /\ pc' # pc =>
          /\ files' = files
          /\ lastUpload' \in UploadOutcomes
          /\ call'.result = "True" /\ lastStore' = "True"]_vars

\* the upload raised and the call returned True
C20_Witness ==
  /\ pc = "db_idle" /\ google_drive_manager /\ lastUpload = "raised"
  /\ call.method = "rt" /\ call.result = "True" /\ lastStore = "True"

\* C19: a one-shot run in which no exception was raised by the ingestion and
\* no interrupt arrived ends with exit code zero and has echoed a
\* successful/total count, whatever --feed-type was
C19_OneShotExitsZero ==
  (once /\ pc = "done" /\ interruptedAt = "none" /\ raised = 0) =>
     (exitCode = 0 /\ reported.form = "count")

\* C21: neither the fetch methods nor ingest_all_feeds repeat a request: in
\* one cycle every source is sent at most one GET, exactly one when the cycle
\* returns, and a GET that failed (timeout, error, status other than 200)
\* ends the ingest of its source with False in the same step; max_retries
\* does not enter into it.
C21_NoRetry ==
  /\ [](\A i \in 0..R : Requests(i) <= 1)
  /\ [](pc = "cycle_done" => \A i \in 0..R : Requests(i) = 1)
  /\ [][(fetchLog' # fetchLog /\ fetchLog' # << >>) =>
          /\ fetchLog' = Append(fetchLog, idx)
          /\ lastFetch' = "failed" =>
               /\ lastIngest' = "False"
               /\ (pc' \notin FetchSteps \/ idx' # idx)]_vars

\* the GET of the third feed failed after three sources were fetched; it
\* was sent once, with max_retries at 3
C21_Witness ==
  /\ pc = "rt_pause" /\ R = 3 /\ idx = 3 /\ max_retries = 3
  /\ lastFetch = "failed" /\ fetchLog = <<0, 1, 2, 3>>
  /\ outcomes = <<TRUE, FALSE, TRUE, FALSE>>

\* parse_gtfs_rt_data has returned
Decoded == mode = "decode_rt" /\ pc \in {"dec_store_rt", "dec_done"}

\* C22: a well-formed message decoded as trip_updates gives a non-empty dict
\* whose records are those of the entities that carry a trip update, one
\* each and in the order of the entities; an entity with only a vehicle
\* position gives no record and no failure.  The same for vehicle_positions
\* and the entities that carry a vehicle position.
C22_OneRecordPerEntity ==
  LET WithTripUpdate == SelectSeq(raw_data.entity, LAMBDA e : e.trip_update.has)
      WithVehicle == SelectSeq(raw_data.entity, LAMBDA e : e.vehicle.has)
  IN
  (Decoded /\ raw_data.wire = "feed") =>
     /\ requested = "trip_updates" =>
          /\ parsed_data.keys # {}
          /\ Len(parsed_data.trip_updates)
               = Cardinality({j \in 1..Len(raw_data.entity) :
                                raw_data.entity[j].trip_update.has})
          /\ parsed_data.trip_updates
               = [j \in 1..Len(WithTripUpdate) |->
                    update_data(WithTripUpdate[j].trip_update.value)]
     /\ requested = "vehicle_positions" =>
          /\ parsed_data.keys # {}
          /\ Len(parsed_data.vehicle_positions)
               = Cardinality({j \in 1..Len(raw_data.entity) :
                                raw_data.entity[j].vehicle.has})
          /\ parsed_data.vehicle_positions
               = [j \in 1..Len(WithVehicle) |->
                    position_data(WithVehicle[j].vehicle.value)]

\* a message of two entities, the first with a vehicle position only, the
\* second with a trip update only, decoded as trip_updates: one record, and
\* the ingest returned True
C22_Witness ==
  /\ pc = "dec_done" /\ mode = "decode_rt" /\ requested = "trip_updates"
  /\ Len(raw_data.entity) = 2
  /\ raw_data.entity[1].vehicle.has /\ ~raw_data.entity[1].trip_update.has
  /\ raw_data.entity[2].trip_update.has /\ ~raw_data.entity[2].vehicle.has
  /\ Len(parsed_data.trip_updates) = 1 /\ lastIngest = "True"

\* C23: in every decoded record a delay, a vehicle id or a position that the
\* source entity does not have is None, never 0 or an empty string, a value
\* that it has is that value, and a delay of 0 is the number 0.
C23_AbsentStaysAbsent ==
  LET WithTripUpdate == SelectSeq(raw_data.entity, LAMBDA e : e.trip_update.has)
      WithVehicle == SelectSeq(raw_data.entity, LAMBDA e : e.vehicle.has)
  IN
  (Decoded /\ raw_data.wire = "feed") =>
     /\ requested = "trip_updates" =>
          \A j \in 1..Len(parsed_data.trip_updates) :
             LET tu == WithTripUpdate[j].trip_update.value
                 rec == parsed_data.trip_updates[j]
             IN /\ rec.delay = (IF tu.delay.has THEN PyInt(tu.delay.value)
                                ELSE PyNone)
                /\ rec.vehicle_id
                     = (IF tu.vehicle.has /\ tu.vehicle.value.id.has
                        THEN PyStr(tu.vehicle.value.id.value) ELSE PyNone)
     /\ requested = "vehicle_positions" =>
          \A j \in 1..Len(parsed_data.vehicle_positions) :
             LET vp == WithVehicle[j].vehicle.value
                 rec == parsed_data.vehicle_positions[j]
             IN rec.position
                  = (IF vp.position.has
                     THEN PyDict([latitude |-> vp.position.value.latitude])
                     ELSE PyNone)

\* C24: a non-empty decode result has exactly one of the keys trip_updates
\* and vehicle_positions: the one that was requested, which is also its
\* feed_type tag; the same holds of the object that was dumped from it.
C24_OneKind ==
  /\ (Decoded /\ parsed_data.keys # {}) =>
       /\ raw_data.wire = "feed" /\ requested \in KnownKinds
       /\ parsed_data.keys \cap KnownKinds = {requested}
       /\ "feed_type" \in parsed_data.keys
       /\ parsed_data.feed_type = requested
       /\ requested = "trip_updates" => parsed_data.vehicle_positions = << >>
       /\ requested = "vehicle_positions" => parsed_data.trip_updates = << >>
  /\ (mode = "decode_rt" /\ json_data.keys # {}) =>
       /\ json_data.keys \cap KnownKinds = {requested}
       /\ json_data.feed_type = requested

\* a message whose only entity carries both payloads, decoded as
\* vehicle_positions and dumped: one vehicle record and no trip_updates key
C24_Witness ==
  /\ pc = "dec_done" /\ mode = "decode_rt" /\ requested = "vehicle_positions"
  /\ Len(raw_data.entity) = 1
  /\ raw_data.entity[1].trip_update.has /\ raw_data.entity[1].vehicle.has
  /\ "vehicle_positions" \in json_data.keys
  /\ "trip_updates" \notin json_data.keys
  /\ Len(json_data.vehicle_positions) = 1 /\ lastIngest = "True"

\* fetch_gtfs_static_data has returned for an archive that opened
Unpacked ==
  mode = "decode_static" /\ pc \in {"dec_store_static", "dec_done"}
    /\ zip_data.opens

\* the table names of the recognized files that are members of the archive
\* in hand and read as CSV
ReadableTables ==
  {table_name(gtfs_files[j]) :
     j \in {k \in 1..Len(gtfs_files) : zip_data.member[gtfs_files[k]] = "csv"}}

\* C25: the keys of the decoded table set are exactly the names of the seven
\* recognized files that are in the archive and read; a recognized file
\* that is missing is no key and does not fail the decode (the store method
\* is reached), and a member outside the seven is no key.
C25_RecognizedTablesOnly ==
  Unpacked =>
     /\ gtfs_data = ReadableTables
     /\ "shapes" \notin gtfs_data
     /\ pc = "dec_done" => lastStore # "none"

\* an archive with stops.txt, routes.txt and shapes.txt only was decoded to
\* two tables and stored
C25_Witness ==
  /\ Unpacked /\ pc = "dec_done" /\ lastIngest = "True"
  /\ namelist(zip_data) = {"stops.txt", "routes.txt", "shapes.txt"}
  /\ gtfs_data = {"stops", "routes"}

\* C26: when a recognized member of an archive that opened does not read,
\* the decode still succeeds with every recognized member that reads as a
\* table, store_gtfs_static_data is called with them, and the ingest returns
\* what the write ended in: True with the dumped object holding exactly
\* those tables.
C26_BadTableDropped ==
  /\ []((Unpacked /\ TableError(zip_data)) =>
          /\ gtfs_data = ReadableTables
          /\ pc = "dec_done" =>
               /\ lastStore \in {"True", "False"} /\ lastIngest = lastStore
               /\ lastStore = "True" =>
                    /\ json_data.tables = ReadableTables
                    /\ StaticParsedName(timestamp) \in files)
  /\ [][(pc = "dec_static" /\ zip_data.opens) => pc' = "dec_store_static"]_vars

\* stops.txt did not read, routes.txt and trips.txt did: two tables were
\* dumped and the ingest returned True
C26_Witness ==
  /\ Unpacked /\ pc = "dec_done" /\ lastIngest = "True"
  /\ zip_data.member["stops.txt"] = "bad_csv"
  /\ namelist(zip_data) = {"stops.txt", "routes.txt", "trips.txt"}
  /\ json_data.tables = {"routes", "trips"}

\* C27: when the body of the static bundle is no archive, the decode step
\* ends ingest_gtfs_static with False without calling the store method and
\* without writing a file, raw or parsed; in a pass over all sources the
\* outcome is recorded as False and the pass goes on to the first real-time
\* feed.
C27_BadArchive ==
  /\ [](pc \in {"static_store_raw", "static_store_parsed"} => payload # "bad_zip")
  /\ [][(pc = "static_decode" /\ payload = "bad_zip" /\ pc' # pc
            /\ interruptedAt' = interruptedAt) =>
          /\ lastIngest' = "False"
          /\ outcomes' = Append(outcomes, FALSE)
          /\ files' = files /\ storeLog' = storeLog
          /\ mode = "static_once" => (pc' = "aexit" /\ pending' = "return")
          /\ mode # "static_once" =>
               /\ results' = DictSet(results, gtfs_static_url, FALSE)
               /\ R >= 1 => (pc' = "rt_fetch" /\ idx' = 1)
               /\ R = 0 => pc' = "cycle_done"]_vars

\* with raw saving on, the static GET delivered a body that was no archive:
\* False is recorded, no file exists and the first feed is being fetched
C27_Witness ==
  /\ pc = "rt_fetch" /\ idx = 1 /\ save_raw_static_zip
  /\ lastFetch = "body" /\ lastIngest = "False" /\ lastStore = "none"
  /\ results = << <<gtfs_static_url, FALSE>> >>
  /\ storeLog = << >> /\ files = {}

\* C28: the object store_gtfs_static_data dumps has the four fields
\* feed_url, feed_name, timestamp and tables, and tables has one entry per
\* decoded table.
C28_StaticArtifactFields ==
  (mode = "decode_static" /\ json_data.keys # {}) =>
     /\ json_data.keys = {"feed_url", "feed_name", "timestamp", "tables"}
     /\ json_data.tables = gtfs_data

\* C29: in a pass over all sources one source is in hand at a time: while
\* source idx is fetched nothing of another source is held and the outcomes
\* of all sources before it, and of no other, are in the result map; the
\* body and timestamp held while decoding and storing are those of the
\* source fetched last; and a GET is only issued with the outcome of every
\* earlier source recorded.
C29_Sequential ==
  /\ []((mode \in {"all_once", "continuous"} /\ pc \in FetchSteps) =>
          /\ payload = "none" /\ timestamp = -1
          /\ Len(outcomes) = idx
          /\ DictKeys(results) = {SourceUrl(j) : j \in 0..(idx - 1)}
          /\ fetchLog = [j \in 1..idx |-> j - 1])
  /\ []((mode \in {"all_once", "continuous"} /\ pc \in AfterFetch) =>
          /\ Len(outcomes) = idx
          /\ DictKeys(results) = {SourceUrl(j) : j \in 0..(idx - 1)}
          /\ fetchLog = [j \in 1..(idx + 1) |-> j - 1]
          /\ \A j \in 1..Len(storeLog) : storeLog[j] <= idx)
  /\ [][(mode \in {"all_once", "continuous"} /\ fetchLog' # fetchLog
            /\ fetchLog' # << >>) =>
          /\ fetchLog' = Append(fetchLog, idx)
          /\ Len(outcomes) = idx
          /\ \A j \in 0..(idx - 1) : SourceUrl(j) \in DictKeys(results)]_vars

\* the third of three feeds is being stored; the static bundle and the
\* first feed failed, the second succeeded, and all three are recorded
C29_Witness ==
  /\ mode = "all_once" /\ pc = "rt_store_parsed" /\ idx = 3 /\ R = 3
  /\ results = << <<"s", FALSE>>, <<"a", FALSE>>, <<"b", TRUE>> >>
  /\ fetchLog = <<0, 1, 2, 3>> /\ payload = "feed"

\* C30: in a continuous run every cycle but the first starts right after a
\* completed sleep of interval seconds, and that sleep is the only one since
\* the cycle before: a cycle that returned goes to the sleep of line 354, a
\* cycle that raised to the sleep of the handler, and the number of
\* completed sleeps is the number of cycles started before the coming one.
C30_OneWaitBetweenCycles ==
  /\ [](mode = "continuous" =>
          /\ waits <= cycles /\ cycles <= waits + 1
          /\ (cycles > 0 /\ waits = cycles) => pc \in {"cycle_start"} \cup Left)
  /\ [][cycles' # cycles => (cycles' = cycles + 1 /\ waits = cycles)]_vars
  /\ [][waits' # waits =>
          /\ pc \in {"wait", "error_wait"} /\ waits' = waits + 1
          /\ pc' = "cycle_start"]_vars
  /\ [][(mode = "continuous" /\ pc = "cycle_done" /\ pc' # pc
            /\ interruptedAt' = interruptedAt) => pc' = "wait"]_vars
  /\ [][(mode = "continuous" /\ raised' # raised) => pc' = "error_wait"]_vars

\* two cycles were started, the first raised and the second returned; two
\* sleeps were completed and the third cycle is about to start
C30_Witness ==
  /\ mode = "continuous" /\ pc = "cycle_start" /\ interruptedAt = "none"
  /\ cycles = 2 /\ waits = 2 /\ raised = 1 /\ reported.form = "count"

\* the steps of ingest_gtfs_static
StaticSteps ==
  {"static_fetch", "static_decode", "static_store_raw", "static_store_parsed"}

\* C31: the static bundle is not throttled: the step in which
\* ingest_gtfs_static ends inside ingest_all_feeds, whatever its outcome,
\* goes to the GET of the first real-time source (or to the return when
\* there is none) and never to the sleep of request_delay, and no such sleep
\* has been made in the cycle when the first real-time source is fetched.
C31_StaticUnthrottled ==
  /\ []((pc \in StaticSteps \/ (pc \in AfterFetch \cup {"rt_fetch"} /\ idx = 1))
          => pauses = 0)
  /\ [][(mode \in {"all_once", "continuous"} /\ pc \in StaticSteps
            /\ pc' \notin StaticSteps /\ interruptedAt' = interruptedAt
            /\ raised' = raised) =>
          /\ pc' = (IF R >= 1 THEN "rt_fetch" ELSE "cycle_done")
          /\ pauses' = 0
          /\ fetchLog' = <<0>>
          /\ results' = <<<<gtfs_static_url, lastIngest' = "True">>>>]_vars

\* the first real-time source is about to be fetched in the second cycle of
\* a continuous run; the static bundle was stored and no sleep was made
C31_Witness ==
  /\ mode = "continuous" /\ cycles = 2 /\ pc = "rt_fetch" /\ idx = 1
  /\ pauses = 0 /\ outcomes = <<TRUE>> /\ fetchLog = <<0>>

\* C32: the two raw-save flags are set by the constructor of the
\* DatabaseManager, each to whether its environment variable is "1" at that
\* moment, and by nothing else; a change of the environment afterwards
\* leaves them as they are, and whether a store call writes a raw artifact
\* is decided by the flag as constructed, whatever the environment holds at
\* the call.
C32_FlagsReadOnce ==
  /\ [][flags' # flags => (pc = "db_new" /\ pc' = "db_idle")]_vars
  /\ [][(pc = "db_new" /\ pc' # pc) =>
          /\ save_raw_proto' = (env_proto = "1")
          /\ save_raw_static_zip' = (env_zip = "1")]_vars
  /\ [][(env_proto' # env_proto \/ env_zip' # env_zip) =>
          (flags' = flags /\ files' = files /\ pc' = pc)]_vars
  /\ [][(pc = "db_idle" /\ call' # call) =>
          /\ call'.method = "rt" =>
               (pc' = "db_rt_raw" <=> (save_raw_proto /\ call'.ts # -1))
          /\ call'.method = "static" =>
               (pc' = "db_static_raw" <=>
                  (save_raw_static_zip /\ call'.ts # -1))]_vars
  /\ [](pc = "db_rt_raw" => save_raw_proto)
  /\ [](pc = "db_static_raw" => save_raw_static_zip)

\* the second store call writes the raw bytes of a feed although
\* GTFS_RT_SAVE_PROTO is no longer set, and the first, of a static bundle,
\* wrote none although GTFS_STATIC_SAVE_ZIP is "1" by now: the flags are
\* those of the construction
C32_Witness ==
  /\ pc = "db_rt_raw" /\ ncalls = 2
  /\ save_raw_proto /\ env_proto = "unset"
  /\ ~save_raw_static_zip /\ env_zip = "1"
  /\ prev.method = "static" /\ prev.result = "True" /\ prev.ts = 0
  /\ files = {StaticParsedName(0)}

\* database.py:53, 63, 109 and 195: the raw files of fs, gtfs_rt_<kind>_<ts>.pb
\* and gtfs_static_<ts>.zip, whose parsed file <same stem>.json is not in fs
Orphans(fs) ==
  {f \in fs : f.ext \in {"pb", "zip"} /\ [f EXCEPT !.ext = "json"] \notin fs}

\* the raw file of the ingest in progress
RawInHand ==
  IF pc \in StaticSteps THEN StaticRawName(timestamp)
  ELSE RtRawName(Sources[idx].feed_type, timestamp)

\* C33 as stated: with its raw flag on, a parsed file has its raw file of
\* the same timestamp beside it, written in an earlier step; a raw write
\* that fails ends the ingest with False and no parsed write; and a raw file
\* is left without its parsed file only by an ingest that returned False.
C33_RawBeforeParsed ==
  /\ [](\A f \in files :
          (f.ext = "json" /\ (IF f.prefix = "gtfs_rt" THEN save_raw_proto
                              ELSE save_raw_static_zip)) =>
            [f EXCEPT !.ext = IF f.prefix = "gtfs_rt" THEN "pb" ELSE "zip"]
              \in files)
  /\ [][(pc \in {"rt_store_raw", "static_store_raw"} /\ pc' # pc
            /\ interruptedAt' = interruptedAt /\ RawInHand \notin files') =>
          (files' = files /\ lastIngest' = "False"
             /\ pc' \notin {"rt_store_parsed", "static_store_parsed"})]_vars
  /\ [][(pc \in {"rt_store_parsed", "static_store_parsed"} /\ pc' # pc
            /\ RawInHand \in Orphans(files')) =>
          lastIngest' = "False"]_vars

\* C33 as amended: the same, and a raw file is left without its parsed file
\* only by an ingest that returned False or by one that an operator
\* interrupt ended between the two writes, which returns nothing and has
\* no outcome recorded.
C33_RawBeforeParsedUnlessInterrupted ==
  /\ [](\A f \in files :
          (f.ext = "json" /\ (IF f.prefix = "gtfs_rt" THEN save_raw_proto
                              ELSE save_raw_static_zip)) =>
            [f EXCEPT !.ext = IF f.prefix = "gtfs_rt" THEN "pb" ELSE "zip"]
              \in files)
  /\ [][(pc \in {"rt_store_raw", "static_store_raw"} /\ pc' # pc
            /\ interruptedAt' = interruptedAt /\ RawInHand \notin files') =>
          /\ files' = files /\ lastStore' = "raised" /\ lastIngest' = "False"
          /\ storeLog' = storeLog
          /\ pc' \notin {"rt_store_parsed", "static_store_parsed"}]_vars
  /\ [][(pc \in {"rt_store_parsed", "static_store_parsed"} /\ pc' # pc
            /\ RawInHand \in Orphans(files')) =>
          \/ lastIngest' = "False" /\ interruptedAt' = interruptedAt
          \/ /\ interruptedAt' = pc /\ pc' = "aexit"
             /\ UNCHANGED <<lastIngest, outcomes, results, files>>]_vars
  /\ [][Orphans(files') \ Orphans(files) # {} =>
          /\ pc \in {"rt_store_raw", "static_store_raw"}
          /\ pc' \in {"rt_store_parsed", "static_store_parsed"}
          /\ Orphans(files') \ Orphans(files) = {RawInHand}]_vars
  /\ []((cycles <= 1 /\ pc \notin Left /\ Orphans(files) # {}) =>
          \/ \E j \in 1..Len(outcomes) : ~outcomes[j]
          \/ pc \in {"rt_store_parsed", "static_store_parsed"}
          \/ interruptedAt \in {"rt_store_parsed", "static_store_parsed"})

\* the raw bytes and the parsed records of the first feed are both stored
\* under timestamp 1, after a static bundle whose archive was stored and
\* whose parsed write failed: its ingest returned False
C33_Witness ==
  /\ mode = "all_once" /\ pc = "rt_pause" /\ idx = 1 /\ interruptedAt = "none"
  /\ save_raw_proto /\ save_raw_static_zip /\ outcomes = <<FALSE, TRUE>>
  /\ Orphans(files) = {StaticRawName(0)}
  /\ {RtRawName(Sources[1].feed_type, 1), RtParsedName(Sources[1].feed_type, 1)}
       \subseteq files

\* the message is well formed, a known kind was requested and no entity
\* carries a payload of that kind
NoneOfKind ==
  /\ mode = "decode_rt" /\ raw_data.wire = "feed" /\ requested \in KnownKinds
  /\ \A j \in 1..Len(raw_data.entity) :
       IF requested = "trip_updates" THEN ~has_trip_update(raw_data.entity[j])
       ELSE ~has_vehicle(raw_data.entity[j])

\* C34: a well-formed message without an entity of the requested kind
\* decodes to a non-empty dict with an empty record list, goes on to the
\* parsed write, and ingest_feed returns what the write returned: True with
\* the file written and an empty list in it.  ingest_feed returns False
\* without a write only when the decode gave the empty dict (malformed
\* bytes or an unknown kind).
C34_EmptyFeedIsSuccess ==
  /\ []((Decoded /\ NoneOfKind) =>
          /\ parsed_data.keys \cap KnownKinds = {requested}
          /\ parsed_data.trip_updates = << >>
          /\ parsed_data.vehicle_positions = << >>
          /\ pc = "dec_done" =>
               (lastStore \in {"True", "False"} /\ lastIngest = lastStore))
  /\ [][(pc = "dec_rt" /\ pc' = "dec_done") =>
          /\ raw_data.wire # "feed" \/ requested \notin KnownKinds
          /\ parsed_data' = EmptyDict
          /\ lastIngest' = "False" /\ lastStore' = "none" /\ files' = files]_vars
  /\ [][(pc = "dec_store_rt" /\ pc' # pc /\ NoneOfKind /\ lastStore' = "True") =>
          /\ lastIngest' = "True"
          /\ files' = {RtParsedName(requested, timestamp)}
          /\ json_data'.keys \cap KnownKinds = {requested}
          /\ json_data'.trip_updates = << >>
          /\ json_data'.vehicle_positions = << >>]_vars

\* a message of two entities that carry vehicle positions only, requested
\* as trip_updates: the parsed file is written with no record and
\* ingest_feed returned True
C34_Witness ==
  /\ pc = "dec_done" /\ NoneOfKind /\ requested = "trip_updates"
  /\ Len(raw_data.entity) = 2
  /\ has_vehicle(raw_data.entity[1]) /\ has_vehicle(raw_data.entity[2])
  /\ lastIngest = "True" /\ files = {RtParsedName("trip_updates", timestamp)}
  /\ json_data.keys # {} /\ json_data.trip_updates = << >>

\* C35: a GET of a real-time feed that is answered with status 200 and an
\* empty body ends ingest_feed with False in the same step, as a failed GET
\* does: the outcome False is recorded under the url, nothing is kept for a
\* decode, no store method is called and no file is written; an empty body
\* is never in one of the positions after a fetch.
C35_EmptyBodyIsFailure ==
  /\ [][(pc = "rt_fetch" /\ fetchLog' # fetchLog /\ lastFetch' = "empty") =>
          /\ lastIngest' = "False"
          /\ outcomes' = Append(outcomes, FALSE)
          /\ \E j \in 1..Len(results') :
               results'[j] = <<SourceUrl(idx), FALSE>>
          /\ pc' = "rt_pause"
          /\ payload' = "none" /\ timestamp' = -1
          /\ storeLog' = storeLog /\ files' = files
          /\ lastStore' = lastStore]_vars
  /\ []((lastFetch = "empty" /\ fetchLog # << >>
           /\ fetchLog[Len(fetchLog)] >= 1) =>
          /\ lastIngest = "False"
          /\ pc \notin AfterFetch
          /\ \A j \in 1..Len(storeLog) : storeLog[j] # fetchLog[Len(fetchLog)])

\* the second feed answered 200 with an empty body after the first was
\* stored: False is recorded for it and the only files are those of the
\* first
C35_Witness ==
  /\ mode = "all_once" /\ pc = "rt_pause" /\ idx = 2 /\ lastFetch = "empty"
  /\ lastIngest = "False" /\ outcomes = <<FALSE, TRUE, FALSE>>
  /\ storeLog = <<1>> /\ fetchLog = <<0, 1, 2>>
  /\ files = {RtParsedName(Sources[1].feed_type, 0)}

\* C36: with the session never opened every GET fails inside the fetch
\* method: the ingest of the source returns False in that step, nothing is
\* raised, no store method is called and no file is written; when
\* ingest_all_feeds returns, every configured url is in the map with False,
\* and ingest_gtfs_static called alone returns False.
C36_NoSessionAllFalse ==
  /\ [](session = "none" /\ files = {} /\ storeLog = << >>
          /\ pc \notin AfterFetch /\ lastIngest # "True")
  /\ [][fetchLog' # fetchLog =>
          /\ lastFetch' = "failed" /\ lastIngest' = "False"
          /\ raised' = raised /\ outcomes' = Append(outcomes, FALSE)]_vars
  /\ [](pc = "cycle_done" =>
          /\ raised = 0
          /\ DictKeys(results) = {SourceUrl(i) : i \in 0..R}
          /\ \A j \in 1..Len(results) : ~results[j][2]
          /\ fetchLog = [j \in 1..(R + 1) |-> j - 1])
  /\ []((mode = "static_once" /\ pc = "aexit") =>
          /\ lastIngest = "False" /\ pending = "return"
          /\ reported.successful = 0)

\* ingest_all_feeds has returned for a configuration of three feeds with
\* raw saving on: four GETs were attempted, all four urls are False and
\* nothing was written
C36_Witness ==
  /\ session = "none" /\ pc = "cycle_done" /\ R = 3 /\ save_raw_proto
  /\ results = << <<"s", FALSE>>, <<"a", FALSE>>, <<"b", FALSE>>,
                  <<"c", FALSE>> >>
  /\ fetchLog = <<0, 1, 2, 3>> /\ pauses = 3 /\ files = {}

\* C37: a call of ingest_all_feeds that returns, in a one-shot run and in
\* every cycle of a continuous run, has sent the static bundle one GET and
\* recorded its outcome as the first entry of the map when
\* ingest_gtfs_static ended, so the map it returns has at least one entry;
\* without a real-time feed it is the one entry of the static url, and the
\* count echoed or logged is out of a total of at least 1.
C37_ResultMapNeverEmpty ==
  /\ [](pc = "cycle_done" =>
          /\ Requests(0) = 1
          /\ Len(results) >= 1 /\ results[1][1] = gtfs_static_url
          /\ Len(outcomes) = R + 1
          /\ R = 0 => results = << <<gtfs_static_url, outcomes[1]>> >>)
  /\ [][(mode \in {"all_once", "continuous"} /\ pc \in StaticSteps
            /\ outcomes' # outcomes /\ outcomes' # << >>) =>
          /\ outcomes' = <<lastIngest' = "True">>
          /\ results' = << <<gtfs_static_url, outcomes'[1]>> >>]_vars
  /\ [](reported.form = "count" => reported.total >= 1)

\* the second cycle of a continuous run without a real-time feed has
\* returned: the map is the entry of the static url, whose ingest failed,
\* and 0 of 1 is logged
C37_Witness ==
  /\ mode = "continuous" /\ cycles = 2 /\ pc = "wait" /\ R = 0
  /\ results = << <<gtfs_static_url, FALSE>> >> /\ fetchLog = <<0>>
  /\ reported = [form |-> "count", successful |-> 0, total |-> 1]

\* C38: when ingest_all_feeds returns, every occurrence of a url in the
\* configuration (the static url included) was sent one GET and has one
\* outcome, while the map has one entry per distinct url, whose value is
\* the outcome of the last source configured under that url; with a url
\* configured more than once the map has fewer entries than sources were
\* attempted.
C38_LastOccurrenceWins ==
  pc = "cycle_done" =>
    /\ fetchLog = [j \in 1..(R + 1) |-> j - 1]
    /\ Len(outcomes) = R + 1
    /\ Len(results) = Cardinality({SourceUrl(i) : i \in 0..R})
    /\ \A j, k \in 1..Len(results) : results[j][1] = results[k][1] => j = k
    /\ \A j \in 1..Len(results) :
         \E i \in 0..R :
           /\ SourceUrl(i) = results[j][1]
           /\ \A l \in (i + 1)..R : SourceUrl(l) # results[j][1]
           /\ results[j][2] = outcomes[i + 1]
    /\ ~DistinctUrls => Len(results) < Len(fetchLog)

\* url "a" is listed twice under trip_updates; the first ingest of it
\* succeeded and the second failed: three sources were fetched, the map has
\* two entries and "a" is False
C38_Witness ==
  /\ pc = "cycle_done" /\ R = 2 /\ SourceUrl(1) = "a" /\ SourceUrl(2) = "a"
  /\ Sources[1].feed_type = Sources[2].feed_type
  /\ outcomes = <<TRUE, TRUE, FALSE>> /\ fetchLog = <<0, 1, 2>>
  /\ results = << <<"s", TRUE>>, <<"a", FALSE>> >>

\* C39: db_manager.close() is called once in a run, by the step that leaves
\* the try statement of run_ingestion, with the session already closed by
\* __aexit__; a run that has ended has made the call, whichever way it
\* ended: a one-shot call that returned, the refused continuous gtfs_static
\* request, an operator interrupt, the error exit with code 1, or an
\* exception that no clause catches.
C39_StoreClosedOnceAfterSession ==
  /\ [][dbCloses' # dbCloses =>
          /\ dbCloses = 0 /\ dbCloses' = 1
          /\ pc = "finally" /\ pc' = "done"
          /\ session = "closed" /\ session' = "closed"]_vars
  /\ [](pc = "done" =>
          /\ dbCloses = 1 /\ session = "closed"
          /\ exitPath \in {"completed", "stopped_by_user", "error", "uncaught"})
  /\ [](pc # "done" => dbCloses = 0)
  /\ [][session' # session => dbCloses = 0]_vars

\* a one-shot run whose asyncio.sleep raised has left through the handler
\* that exits with code 1: the session is closed and close() was called once
C39_Witness ==
  /\ pc = "done" /\ once /\ exitPath = "error" /\ exitCode = 1 /\ raised = 1
  /\ session = "closed" /\ dbCloses = 1

====
